---------------------------- MODULE Spec2Model ----------------------------
(***************************************************************************)
(* The agent loop of local_interpreter/interpreter.py (class Interpreter)  *)
(* with its orchestrator (coordinator/orchestrator.py), the external       *)
(* program registry it dispatches to (butler/code_execution_manager.py)    *)
(* and the /approve, /safety and /os-mode commands of butler/main.py.      *)
(*                                                                         *)
(* One Interpreter object is modelled.  An event stream (the generator     *)
(* returned by run() or run_approved_code()) is drained by one consumer;   *)
(* one iteration of _run_loop is one step.  The /safety command may be     *)
(* handled between any two steps; os_mode is the constructor's argument.   *)
(*                                                                         *)
(* The loop reads of the history only its length and the kind of each      *)
(* part; the model keeps, for every turn, its role and the kind of its     *)
(* content, and the full content of the turn appended last (last_turn).    *)
(* Likewise an event is kept by its kind and the form of its payload, and  *)
(* the output carried by the latest observation is last_observation.       *)
(***************************************************************************)
EXTENDS Integers, Sequences, FiniteSets

\* ------------------------------------------------------------------ bounds
\* max_iterations is drawn from 0..MaxIter at construction.
MaxIter == 2
\* Number of streams (run(), run_approved_code(), /approve) started in a behaviour.
MaxCalls == 2
\* Number of command threads panel_command_handler starts in a behaviour.
MaxThreads == 2
\* Number of discovery passes (scan_and_register) in a behaviour.
MaxScans == 2
\* Similarity scores are the steps 0..MaxSim of the interval [0, 1].
MaxSim == 2
\* Number of dispatch calls in a behaviour.
MaxDispatch == 2
\* Number of dependency edges a workflow configuration file declares.
MaxEdges == 3
\* File modification times are 0..MaxTime.
MaxTime == 2
\* Number of run() calls made on one WorkflowManager.
MaxRuns == 2

\* ------------------------------------------------------------------ inputs
\* Python's None is the empty tuple, a value v is <<v>>.
None == <<>>

Some(v) == <<v>>

\* Code fragments an LLM decision may carry (PythonCode.code : str, may be empty).
Codes == {"", "c1", "c2"}

\* Names a decision may give for an external tool.
ToolNames == {"prog", "tmpl", "badtmpl", "nope"}

\* ExternalToolCall.args; one argument list is enough for the loop's control flow.
ToolArgs == {<<"a">>}

\* The registry after scan_and_register: name -> run_command template, given by
\* the placeholder names the template holds (None: no "run" key in the manifest).
RegisteredPrograms ==
    [n \in {"prog", "tmpl", "badtmpl"} |->
        CASE n = "prog"    -> [run_command |-> None]
          [] n = "tmpl"    -> [run_command |-> Some({"args"})]
          [] n = "badtmpl" -> [run_command |-> Some({"args", "cwd"})]]

\* What the LLM stream yields in one request: a final decision of one of the
\* three variants, nothing at all ("empty"), or an exception ("raise").
Decisions ==
    [tool_type : {"python"}, thought : {"t"}, code : Codes, tool_name : {""}, args : {<<>>}]
    \cup [tool_type : {"external"}, thought : {"t"}, code : {""}, tool_name : ToolNames, args : ToolArgs]
    \cup [tool_type : {"final"}, thought : {"t"}, code : {""}, tool_name : {""}, args : {<<>>}]

\* final_response stays None: the stream yielded nothing.
NoDecision ==
    [tool_type |-> "none", thought |-> "", code |-> "", tool_name |-> "", args |-> <<>>]

\* The generator raised instead of yielding.
RaisedDecision ==
    [tool_type |-> "raised", thought |-> "", code |-> "", tool_name |-> "", args |-> <<>>]

LLMStreams == {"decision", "empty", "raise"}

\* How running a code fragment ends: normally, with SandboxError, with another Exception.
CodeOutcomes(code, os) ==
    IF code = "" THEN {"ok"}
    ELSE IF os THEN {"ok", "Exception"}
    ELSE {"ok", "SandboxError", "Exception"}

\* How subprocess.run ends.
ProcOutcomes == {"ok", "FileNotFoundError", "CalledProcessError", "Exception"}

VARIABLES
    client,                  \* Orchestrator.client is set (an API key was found)
    is_ready,                \* Interpreter.is_ready
    safety_mode,             \* Interpreter.safety_mode
    os_mode,                 \* Interpreter.os_mode
    max_iterations,          \* Interpreter.max_iterations
    conversation_history,    \* Interpreter.conversation_history: role and kind of each turn
    last_turn,               \* None or <<the turn appended last, in full>>
    last_code_for_approval,  \* None or <<code>>
    last_tool_for_approval,  \* None or <<[tool_name, args]>>
    stream,                  \* the current event stream: "none", "run" or "approved"
    stream_state,            \* "idle", "active", "ended" or "raised" (an exception left it)
    exception,               \* the exception that left the stream ("" when none did)
    iter_left,               \* iterations the for loop of _run_loop still has
    final_response,          \* None or <<final_response of the stream's latest request>>
    events,                  \* the events the current stream has yielded, in order
    last_observation,        \* None or <<output of the stream's latest observation>>
    requests,                \* orchestrator requests made by the current stream
    decisions,               \* decisions received by the current stream
    executed,                \* actions the current stream has run to completion
    last_executed,           \* None or <<the action the stream started to run last>>
    hist_mark,               \* assistant turns in the history when the stream started
    ui_print,                \* the message Jarvis printed last
    calls                    \* streams started so far

\* The fields of the Interpreter and of the stream being drained.
interpreterVars == <<client, is_ready, safety_mode, os_mode, max_iterations,
          conversation_history, last_turn, last_code_for_approval,
          last_tool_for_approval, stream, stream_state, exception, iter_left,
          final_response, events, last_observation, requests, decisions, executed,
          last_executed, hist_mark, ui_print, calls>>

\* Commands handled at the same time: panel_command_handler (main.py 826-834)
\* and handle_message (web/main.py 18-53) start one thread per command, and
\* every thread works on the one Interpreter of Jarvis (main.py 86).
VARIABLES
    t_command,               \* thread -> the command it handles ("" before it is started)
    t_state,                 \* thread -> "idle", "active", "ended" or "raised"
    t_left,                  \* thread -> iterations its loop still has
    t_requests,              \* thread -> orchestrator requests its task has made
    t_sent,                  \* thread -> what its latest request saw: the owner of every
                             \*   turn of the history sent, and the owners of the staged slots
    t_last,                  \* thread -> None or <<the event its stream yielded last>>
    turn_owner,              \* for every turn of conversation_history, the thread that appended it
    slot_owner,              \* for each staging slot, None or <<the thread that staged it>>
    overlaps,                \* thread -> the threads whose task ran while its own did
    cancel_seen              \* the threads whose task was running when a cancel command arrived

tasksVars == <<t_command, t_state, t_left, t_requests, t_sent, t_last, turn_owner,
               slot_owner, overlaps, cancel_seen>>

\* The tool tables of butler/core/extension_manager.py: the plugins of its
\* PluginManager, its packages, and the programs of its CodeExecutionManager.
VARIABLES
    plugins,                 \* PluginManager.plugins: the names loaded
    packages,                \* ExtensionManager.packages: the names loaded
    registered_programs,     \* CodeExecutionManager.registered_programs: the names registered
    executable,              \* project -> its executable file exists
    build_failed,            \* the projects whose build failed in the latest pass
    scans,                   \* discovery passes made so far
    last_execute             \* what the latest execute(name) ended with

registryVars == <<plugins, packages, registered_programs, executable,
                  build_failed, scans, last_execute>>

\* Threads inside PluginManager.get_plugin (plugin/PluginManager.py 99-110).
VARIABLES
    instances,               \* plugin name -> instances of its class created so far
    cleaned,                 \* the instances cleanup() was called on
    g_name,                  \* thread -> the name it asked get_plugin for ("" before the call)
    g_pc,                    \* thread -> its position in get_plugin / load_plugin
    g_inst,                  \* thread -> None or <<the instance it created>>
    g_ret                    \* thread -> None or <<what get_plugin returned to it>>

lazyVars == <<instances, cleaned, g_name, g_pc, g_inst, g_ret>>

\* The intent table of butler/core/intent_dispatcher.py (class IntentRegistry).
VARIABLES
    intents,                 \* IntentRegistry._intents, in insertion order
    match_in,                \* when the latest call on the table was a match:
                             \*   <<its similarities and threshold>>, else None
    match_result,            \* what that match_intent_locally returned
    dispatch_in,             \* when the latest call on the table was a dispatch:
                             \*   <<its intent name>>, else None
    dispatch_result,         \* what that dispatch returned
    dispatches,              \* dispatch calls made so far
    handler_calls,           \* handler invocations made so far
    escaped                  \* the exception that reached the caller of dispatch ("" when none)

intentVars == <<intents, match_in, match_result, dispatch_in, dispatch_result,
                dispatches, handler_calls, escaped>>

\* package/workflow_manager.py (class WorkflowManager) during one run().
VARIABLES
    graph,                   \* WorkflowManager.graph: dep -> the modules that name it, in order
    costs,                   \* WorkflowManager.costs: module -> cost
    stop_on_error,           \* WorkflowManager.stop_on_error
    start_module,            \* argument of run()
    end_module,              \* argument of run()
    wf_state,                \* "off", "new", "running", "complete", "noroute" or "raised"
    min_costs,               \* result of _find_shortest_path
    predecessors,            \* result of _find_shortest_path
    optimal_route,           \* result of _get_optimal_route
    ran,                     \* the modules _execute_module was called for, in order
    failed_modules           \* the modules whose execution failed

workflowVars == <<graph, costs, stop_on_error, start_module, end_module, wf_state,
                  min_costs, predecessors, optimal_route, ran, failed_modules>>

\* Threads handling the /approve command (main.py 440-447) inside
\* Interpreter.run_approved_code (interpreter.py 80-107).
VARIABLES
    ap_pc,                   \* thread -> its position in the handler and the generator
    ap_local,                \* thread -> None or <<the local `code` or (tool_name, args) it read>>
    ui_block,                \* None or <<the python code block shown in panel.output_text>>
    approved_runs,           \* the actions executed by run_approved_code, in order
    staged_count             \* actions staged so far

approveVars == <<ap_pc, ap_local, ui_block, approved_runs, staged_count>>

\* Jarvis.open_programs (main.py 682-760) and the files it works on.
VARIABLES
    program_folder,          \* module name -> "absent", or what its file holds: "run", "norun"
    file_list,               \* None or <<the module names file_list.txt holds>>
    programs,                \* None or <<the keys of the dict open_programs returned last>>
    fresh,                   \* the modules with run() added since that call
    last_op                  \* "none", "add" or "open": what happened last

folderVars == <<program_folder, file_list, programs, fresh, last_op>>

\* Discovery passes over one project of the programs directory, each made by
\* a CodeExecutionManager of its own (interpreter.py 18-20,
\* extension_manager.py 17-29), inside _compile_and_register_project
\* (code_execution_manager.py 47-114).
VARIABLES
    exec_mtime,              \* None or <<modification time of the executable>>
    src_mtime,               \* source file -> None or <<its modification time>>
    b_pc,                    \* pass -> its position in _compile_and_register_project
    b_needs,                 \* pass -> None or <<needs_compilation as it computed it>>
    b_checked,               \* pass -> None or <<the files as they were when it computed it>>
    b_seen,                  \* pass -> builds run before it computed needs_compilation
    b_built,                 \* the passes that ran the build command
    b_registered,            \* the passes that registered the program
    builds                   \* runs of the build command so far

buildVars == <<exec_mtime, src_mtime, b_pc, b_needs, b_checked, b_seen, b_built,
               b_registered, builds>>

\* A WorkflowManager on which run() is called more than once, and a run()
\* beside the same run() made by another process.
VARIABLES
    runs,                    \* run() calls made on the manager so far
    fresh_route,             \* the route a new WorkflowManager plans for the latest call
    sorted_order,            \* result of _topological_sort in run()
    alt_sorted,              \* the same in the other process
    alt_route                \* the route planned in the other process

replanVars == <<runs, fresh_route, sorted_order, alt_sorted, alt_route>>

\* The variables of the parts that share no state with the Interpreter.
laterVars == <<folderVars, buildVars, replanVars>>

\* The variables of the parts modelled on their own.
extraVars == <<approveVars, laterVars>>

\* The variables of the parts other than the Interpreter and its one stream.
otherVars == <<tasksVars, registryVars, lazyVars, intentVars, workflowVars, extraVars>>

\* The variables a step of a command thread leaves alone.
besideTasks == <<registryVars, lazyVars, intentVars, workflowVars>>

vars == <<interpreterVars, otherVars>>

\* ------------------------------------------------------- pure operations

\* orchestrator.py 12-16: the pydantic model PythonCode; thought and code are
\* required fields (Field(...)), so building it without one raises ValidationError.
PythonCode(kw) ==
    IF {"thought", "code"} \subseteq DOMAIN kw
    THEN [tool_type |-> "python", thought |-> kw.thought, code |-> kw.code,
          tool_name |-> "", args |-> <<>>]
    ELSE RaisedDecision

\* orchestrator.py 193-231: the last value the generator yields for one request.
\* Without a client, and when the API call raises, it builds
\* PythonCode(code = 'print("...")') and yields it.
StreamCodeGeneration(hasClient, llm, d) ==
    IF ~hasClient THEN PythonCode([code |-> "print_not_initialized"])
    ELSE IF llm = "raise" THEN PythonCode([code |-> "print_error"])
    ELSE IF llm = "empty" THEN NoDecision
    ELSE d

\* Every final_response one request can end with.
OrchestratorResults(hasClient) ==
    {StreamCodeGeneration(hasClient, "decision", d) : d \in Decisions}
    \cup {StreamCodeGeneration(hasClient, llm, NoDecision) : llm \in {"empty", "raise"}}

\* Python truthiness of last_code_for_approval (`if self.last_code_for_approval:`):
\* None and the empty string are false.
TruthyCode(slot) == slot # None /\ slot[1] # ""

\* Python truthiness of last_tool_for_approval: None is false, a pair is true.
TruthyTool(slot) == slot # None

\* interpreter.py 49-72: _execute_code returns (output, success); SandboxError and
\* Exception are caught and turned into output text.
ExecuteCode(code, outcome) ==
    CASE outcome = "ok" ->
           [output |-> IF code = "" THEN "" ELSE "stdout", success |-> TRUE]
      [] outcome = "SandboxError" ->
           [output |-> "Sandbox Error", success |-> FALSE]
      [] OTHER ->
           [output |-> "An unexpected error occurred during execution", success |-> FALSE]

\* code_execution_manager.py 149-154: building the command.  str.format(args=...)
\* raises KeyError when the template names another placeholder.
FormatRaises(info) ==
    info.run_command # None /\ \E p \in info.run_command[1] : p # "args"

\* code_execution_manager.py 137-183: execute_program returns (success, output),
\* or raises when the command cannot be built (line 152 is outside the try).
ExecuteProgram(registry, name, outcome) ==
    IF name \notin DOMAIN registry
    THEN [raised |-> FALSE, success |-> FALSE, output |-> "Error: Program not found"]
    ELSE IF FormatRaises(registry[name])
    THEN [raised |-> TRUE, success |-> FALSE, output |-> "KeyError"]
    ELSE CASE outcome = "ok" ->
                [raised |-> FALSE, success |-> TRUE, output |-> "stdout"]
           [] outcome = "FileNotFoundError" ->
                [raised |-> FALSE, success |-> FALSE, output |-> "Error: executable not found"]
           [] outcome = "CalledProcessError" ->
                [raised |-> FALSE, success |-> FALSE, output |-> "Error executing"]
           [] OTHER ->
                [raised |-> FALSE, success |-> FALSE, output |-> "An unexpected error occurred"]

\* The ways subprocess.run can end for a program.  With a shell command (a run
\* template) it does not raise FileNotFoundError for a missing program: the
\* shell exits nonzero.
ProgOutcomes(registry, name) ==
    IF name \notin DOMAIN registry \/ FormatRaises(registry[name]) THEN {"ok"}
    ELSE IF registry[name].run_command # None THEN ProcOutcomes \ {"FileNotFoundError"}
    ELSE ProcOutcomes

\* An event of the stream: its kind and the form of its payload (the preview
\* of a code fragment and of a tool call are both "preview").
Event(kind, text) == [kind |-> kind, text |-> text]

\* interpreter.py 92, 101, 181, 197: the observation of an executed action.
Observation == Event("result", "Output")

\* interpreter.py 165: the final answer; 161: the loop-level failure.
FinalAnswer == Event("result", "Final Answer")

NoResponse == Event("result", "Error: Failed to get a response from the AI.")

\* interpreter.py 175, 190.
ApprovalRequired == Event("result", "Action requires approval")

\* interpreter.py 204.
NotReady == Event("result", "Error: Interpreter is not ready. Please check API key.")

\* interpreter.py 103.
NoAction == Event("result", "No action to approve.")

\* A turn of the history, in full.
Turn(role, label, action, args, output) ==
    [role |-> role, label |-> label, action |-> action, args |-> args, output |-> output]

\* What the history keeps of a turn: its role and the kind of its content, a
\* string ("text") or a list holding an image part ("image_url") or the
\* placeholder that replaced it ("omitted").
Kept(turn) ==
    [role |-> turn.role,
     part |-> IF turn.label \in {"image_url", "omitted"} THEN turn.label ELSE "text"]

\* interpreter.py 74-78: the turn _add_assistant_response_to_history appends.
CodeTurn(code, output, os_command) ==
    Turn("assistant", IF os_command THEN "Executed OS Commands" ELSE "Executed Code",
         code, <<>>, output)

\* interpreter.py 99-100 and 195-196: the assistant turn of an external tool.
ToolTurn(tool_name, args, output) ==
    Turn("assistant", "Executed External Tool", tool_name, args, output)

\* interpreter.py 207: the user turn run() appends.
UserTurn == Turn("user", "text", "task", <<>>, "")

\* interpreter.py 130-136: the turn holding the screenshot.
ScreenTurn == Turn("user", "image_url", "Current Screen Observation:", <<>>, "")

\* A history that would drop the turn of an action whose output is a failure
\* text: the behaviour the loop must not have.
AppendTurnOnSuccess(history, turn) ==
    IF turn.role = "assistant" /\ turn.output # "stdout"
    THEN history
    ELSE Append(history, Kept(turn))

\* conversation_history.append(turn)
AppendTurn(history, turn) == Append(history, Kept(turn))

\* interpreter.py 116-136: in OS mode older screenshots are replaced by a
\* placeholder and a new screenshot turn is appended.
CaptureScreen(history, os) ==
    IF ~os THEN history
    ELSE AppendTurn([i \in 1..Len(history) |->
                       IF history[i].part = "image_url"
                       THEN [history[i] EXCEPT !.part = "omitted"]
                       ELSE history[i]],
                    ScreenTurn)

\* The turn appended last once the screenshot step is done.
CaptureLast(last, os) ==
    IF os THEN Some(ScreenTurn) ELSE last

\* A gate that never holds an action back.
SafetyGateOff(sm) == FALSE

\* interpreter.py 173 and 188: the safety gate.
SafetyGate(sm) == sm

\* interpreter.py 174 and 189: the slot after a decision is staged.
Stage(action) == Some(action)

\* An executed action that would yield no observation.
YieldNothing(evs) == evs

\* interpreter.py 181 and 197, 92 and 101: the observation is yielded.
YieldObservation(evs) == Append(evs, Observation)

\* A loop that would go on after the final message.
FinalContinue == "active"

\* interpreter.py 162 and 166: break after the final message.
FinalBreak == "ended"

\* interpreter.py 176 and 191: break after the approval prompt.
ApprovalBreak == "ended"

\* interpreter.py 113: the for loop ends when its range is exhausted.
AfterIteration(left) == IF left = 1 THEN "ended" ELSE "active"

\* interpreter.py 113: the loop entered with n iterations to make.
EnterLoop(n) == IF n = 0 THEN "ended" ELSE "active"

\* Number of assistant turns of a history.
AssistantTurns(history) ==
    Cardinality({i \in 1..Len(history) : history[i].role = "assistant"})

\* Number of events of a stream that are observations.
Observations(evs) == Cardinality({i \in 1..Len(evs) : evs[i] = Observation})

\* ----------------------------------------------------------------- state

Threads == 1..MaxThreads

\* Names a plugin, a package file and a program manifest may carry.
Names == {"n1", "n2"}

\* extension_manager.py 17-23 and code_execution_manager.py 10-15: the tables
\* are empty before the first scan, and no project has been built.
RegistryInit ==
    /\ plugins = <<>>
    /\ packages = {}
    /\ registered_programs = {}
    /\ executable = [n \in Names |-> FALSE]
    /\ build_failed = {}
    /\ scans = 0
    /\ last_execute = ""

\* plugin/PluginManager.py 11-18: no plugin is loaded, no thread is in get_plugin.
LazyInit ==
    /\ instances = [n \in Names |-> 0]
    /\ cleaned = {}
    /\ g_name = [t \in Threads |-> ""]
    /\ g_pc = [t \in Threads |-> "idle"]
    /\ g_inst = [t \in Threads |-> None]
    /\ g_ret = [t \in Threads |-> None]

\* intent_dispatcher.py 11-12: the table is empty.
IntentsInit ==
    /\ intents = <<>>
    /\ match_in = None
    /\ match_result = None
    /\ dispatch_in = None
    /\ dispatch_result = None
    /\ dispatches = 0
    /\ handler_calls = 0
    /\ escaped = ""

\* No WorkflowManager is in use.
WorkflowOff ==
    /\ graph = <<>>
    /\ costs = <<>>
    /\ stop_on_error = TRUE
    /\ start_module = ""
    /\ end_module = ""
    /\ wf_state = "off"
    /\ min_costs = <<>>
    /\ predecessors = <<>>
    /\ optimal_route = <<>>
    /\ ran = <<>>
    /\ failed_modules = {}

\* No thread is handling /approve.
ApproveOff ==
    /\ ap_pc = [t \in Threads |-> "idle"]
    /\ ap_local = [t \in Threads |-> None]
    /\ ui_block = None
    /\ approved_runs = <<>>
    /\ staged_count = 0

\* The module names a program folder may hold.
ProgramFiles == {"prog1", "prog2", "prog3"}

\* An empty program folder, no file_list.txt, open_programs not called yet.
FolderInit ==
    /\ program_folder = [m \in ProgramFiles |-> "absent"]
    /\ file_list = None
    /\ programs = None
    /\ fresh = {}
    /\ last_op = "none"

\* The source files a manifest names.
SourceFiles == {"s1", "s2"}

\* No discovery pass is at work; the project has no file.
BuildOff ==
    /\ exec_mtime = None
    /\ src_mtime = [f \in SourceFiles |-> None]
    /\ b_pc = [t \in Threads |-> "idle"]
    /\ b_needs = [t \in Threads |-> None]
    /\ b_checked = [t \in Threads |-> None]
    /\ b_seen = [t \in Threads |-> 0]
    /\ b_built = {}
    /\ b_registered = {}
    /\ builds = 0

\* run() has not been called.
ReplanOff ==
    /\ runs = 0
    /\ sorted_order = <<>>
    /\ alt_sorted = <<>>
    /\ alt_route = <<>>
    /\ fresh_route = <<>>

LaterOff == FolderInit /\ BuildOff /\ ReplanOff

\* The parts modelled on their own are not in use.
ExtraOff == ApproveOff /\ LaterOff

\* No command thread has been started.
TasksInit ==
    /\ t_command = [t \in Threads |-> ""]
    /\ t_state = [t \in Threads |-> "idle"]
    /\ t_left = [t \in Threads |-> 0]
    /\ t_requests = [t \in Threads |-> 0]
    /\ t_sent = [t \in Threads |-> [owners |-> <<>>, staged |-> {}]]
    /\ t_last = [t \in Threads |-> None]
    /\ turn_owner = <<>>
    /\ slot_owner = [code |-> None, tool |-> None]
    /\ overlaps = [t \in Threads |-> {}]
    /\ cancel_seen = {}

\* interpreter.py 13-34: Interpreter.__init__; orchestrator.py 110-131.
Init ==
    /\ client \in BOOLEAN
    /\ is_ready = client
    /\ safety_mode \in BOOLEAN
    /\ os_mode \in BOOLEAN
    /\ max_iterations \in 0..MaxIter
    /\ conversation_history = <<>>
    /\ last_turn = None
    /\ last_code_for_approval = None
    /\ last_tool_for_approval = None
    /\ stream = "none"
    /\ stream_state = "idle"
    /\ exception = ""
    /\ iter_left = 0
    /\ final_response = None
    /\ events = <<>>
    /\ last_observation = None
    /\ requests = 0
    /\ decisions = 0
    /\ executed = 0
    /\ last_executed = None
    /\ hist_mark = 0
    /\ ui_print = ""
    /\ calls = 0
    /\ TasksInit
    /\ RegistryInit
    /\ LazyInit
    /\ IntentsInit
    /\ WorkflowOff
    /\ ExtraOff

\* No stream is being drained: a new one may be started.
NoStreamActive == stream_state # "active"

Config == <<client, is_ready, safety_mode, os_mode, max_iterations>>

Slots == <<last_code_for_approval, last_tool_for_approval>>

\* A call of run() or run_approved_code() creates a new generator.
NewStream(kind) ==
    /\ NoStreamActive
    /\ calls < MaxCalls
    /\ calls' = calls + 1
    /\ stream' = kind
    /\ requests' = 0
    /\ decisions' = 0
    /\ final_response' = None
    /\ hist_mark' = AssistantTurns(conversation_history)

\* interpreter.py 199-208: Interpreter.run up to the first iteration.
Run ==
    /\ NewStream("run")
    /\ executed' = 0
    /\ last_executed' = None
    /\ last_observation' = None
    /\ exception' = ""
    /\ IF ~is_ready
       THEN /\ events' = <<NotReady>>
            /\ stream_state' = "ended"
            /\ iter_left' = 0
            /\ UNCHANGED <<conversation_history, last_turn>>
       ELSE /\ events' = <<>>
            /\ conversation_history' = AppendTurn(conversation_history, UserTurn)
            /\ last_turn' = Some(UserTurn)
            /\ iter_left' = max_iterations
            /\ stream_state' = EnterLoop(max_iterations)
    /\ UNCHANGED <<Config, Slots, ui_print, otherVars>>

\* The events every iteration starts with, and the history the request is sent with.
ThinkingEvents == Append(events, Event("status", "Thinking"))

HistorySent == CaptureScreen(conversation_history, os_mode)

LastSent == CaptureLast(last_turn, os_mode)

\* The action a decision asks for.
CodeAction(code) == [kind |-> "code", action |-> code, args |-> <<>>]

ToolAction(name, args) == [kind |-> "tool", action |-> name, args |-> args]

\* interpreter.py 164-191: the iteration ends the stream without running anything.
\* evs: the events yielded after the status event; st: the stream's new state.
EndsWithout(evs, st) ==
    /\ events' = ThinkingEvents \o evs
    /\ conversation_history' = HistorySent
    /\ last_turn' = LastSent
    /\ stream_state' = st
    /\ UNCHANGED <<iter_left, executed, last_executed, last_observation>>

\* An iteration that ran an action without using up one pass of the for loop.
ExecutedUncounted(turn, output) ==
    /\ events' = YieldObservation(ThinkingEvents \o
                                    <<Event("code_chunk", "thought"),
                                      Event("code_chunk", "preview"),
                                      Event("status", "Executing")>>)
    /\ conversation_history' = AppendTurn(HistorySent, turn)
    /\ last_turn' = Some(turn)
    /\ last_observation' = Some(output)
    /\ executed' = executed + 1
    /\ iter_left' = iter_left
    /\ stream_state' = "active"
    /\ exception' = ""

\* interpreter.py 177-181 and 192-197: the iteration ran an action that returned
\* output; the for loop goes on.
Executed(turn, output) ==
    /\ events' = YieldObservation(ThinkingEvents \o
                                    <<Event("code_chunk", "thought"),
                                      Event("code_chunk", "preview"),
                                      Event("status", "Executing")>>)
    /\ conversation_history' = AppendTurn(HistorySent, turn)
    /\ last_turn' = Some(turn)
    /\ last_observation' = Some(output)
    /\ executed' = executed + 1
    /\ iter_left' = iter_left - 1
    /\ stream_state' = AfterIteration(iter_left)
    /\ exception' = ""

\* interpreter.py 113-197: one iteration of _run_loop, from the status event to
\* the end of the dispatch of the decision.
LoopIteration ==
    /\ stream_state = "active"
    /\ iter_left > 0
    /\ requests' = requests + 1
    /\ \E fr \in OrchestratorResults(client) :
         /\ final_response' = Some(fr)
         /\ \* 139-147: the generator raised: the exception leaves _run_loop
            \/ /\ fr.tool_type = "raised"
               /\ EndsWithout(<<>>, "raised")
               /\ exception' = "ValidationError"
               /\ UNCHANGED <<decisions, Slots>>
            \* 160-162: no response
            \/ /\ fr.tool_type = "none"
               /\ EndsWithout(<<NoResponse>>, FinalBreak)
               /\ UNCHANGED <<decisions, exception, Slots>>
            \* 164-166: FinalResponse
            \/ /\ fr.tool_type = "final"
               /\ EndsWithout(<<Event("code_chunk", "thought"), FinalAnswer>>, FinalBreak)
               /\ decisions' = decisions + 1
               /\ UNCHANGED <<exception, Slots>>
            \* 169-176: PythonCode under the safety gate
            \/ /\ fr.tool_type = "python"
               /\ SafetyGate(safety_mode)
               /\ last_code_for_approval' = Stage(fr.code)
               /\ EndsWithout(<<Event("code_chunk", "thought"),
                                Event("code_chunk", "preview"), ApprovalRequired>>,
                              ApprovalBreak)
               /\ decisions' = decisions + 1
               /\ UNCHANGED <<exception, last_tool_for_approval>>
            \* 177-181: PythonCode executed
            \/ /\ fr.tool_type = "python"
               /\ ~SafetyGate(safety_mode)
               /\ decisions' = decisions + 1
               /\ last_executed' = Some(CodeAction(fr.code))
               /\ \E outcome \in CodeOutcomes(fr.code, os_mode) :
                    LET r == ExecuteCode(fr.code, outcome)
                    IN Executed(CodeTurn(fr.code, r.output, os_mode), r.output)
               /\ UNCHANGED Slots
            \* 183-191: ExternalToolCall under the safety gate
            \/ /\ fr.tool_type = "external"
               /\ SafetyGate(safety_mode)
               /\ last_tool_for_approval' =
                    Stage([tool_name |-> fr.tool_name, args |-> fr.args])
               /\ EndsWithout(<<Event("code_chunk", "thought"),
                                Event("code_chunk", "preview"), ApprovalRequired>>,
                              ApprovalBreak)
               /\ decisions' = decisions + 1
               /\ UNCHANGED <<exception, last_code_for_approval>>
            \* 192-197: ExternalToolCall executed
            \/ /\ fr.tool_type = "external"
               /\ ~SafetyGate(safety_mode)
               /\ decisions' = decisions + 1
               /\ last_executed' = Some(ToolAction(fr.tool_name, fr.args))
               /\ \E outcome \in ProgOutcomes(RegisteredPrograms, fr.tool_name) :
                    LET r == ExecuteProgram(RegisteredPrograms, fr.tool_name, outcome)
                    IN IF r.raised
                       THEN \* the exception of execute_program leaves _run_loop
                            /\ events' = ThinkingEvents \o
                                           <<Event("code_chunk", "thought"),
                                             Event("code_chunk", "preview"),
                                             Event("status", "Executing")>>
                            /\ conversation_history' = HistorySent
                            /\ last_turn' = LastSent
                            /\ stream_state' = "raised"
                            /\ exception' = r.output
                            /\ UNCHANGED <<iter_left, executed, last_observation>>
                       ELSE Executed(ToolTurn(fr.tool_name, fr.args, r.output), r.output)
               /\ UNCHANGED Slots
    /\ UNCHANGED <<Config, stream, hist_mark, ui_print, calls, otherVars>>

\* interpreter.py 85-107: the approved action has returned output; the loop is entered.
Approved(action, turn, output) ==
    /\ last_executed' = Some(action)
    /\ events' = YieldObservation(<<Event("status", "Executing approved")>>)
    /\ conversation_history' = AppendTurn(conversation_history, turn)
    /\ last_turn' = Some(turn)
    /\ last_observation' = Some(output)
    /\ executed' = 1
    /\ iter_left' = max_iterations
    /\ stream_state' = EnterLoop(max_iterations)
    /\ exception' = ""

\* interpreter.py 80-107: run_approved_code up to `yield from self._run_loop()`.
RunApprovedCode ==
    /\ NewStream("approved")
    /\ IF TruthyCode(last_code_for_approval)
       THEN \E outcome \in CodeOutcomes(last_code_for_approval[1], os_mode) :
              LET code == last_code_for_approval[1]
                  r == ExecuteCode(code, outcome)
              IN /\ last_code_for_approval' = None
                 /\ Approved(CodeAction(code), CodeTurn(code, r.output, os_mode), r.output)
                 /\ UNCHANGED last_tool_for_approval
       ELSE IF TruthyTool(last_tool_for_approval)
       THEN LET t == last_tool_for_approval[1] IN
            \E outcome \in ProgOutcomes(RegisteredPrograms, t.tool_name) :
              LET r == ExecuteProgram(RegisteredPrograms, t.tool_name, outcome)
              IN /\ last_tool_for_approval' = None
                 /\ IF r.raised
                    THEN \* the exception of execute_program leaves the stream
                         /\ last_executed' = Some(ToolAction(t.tool_name, t.args))
                         /\ events' = <<Event("status", "Executing approved")>>
                         /\ stream_state' = "raised"
                         /\ exception' = r.output
                         /\ iter_left' = 0
                         /\ executed' = 0
                         /\ last_observation' = None
                         /\ UNCHANGED <<conversation_history, last_turn>>
                    ELSE Approved(ToolAction(t.tool_name, t.args),
                                  ToolTurn(t.tool_name, t.args, r.output), r.output)
                 /\ UNCHANGED last_code_for_approval
       ELSE /\ events' = <<NoAction>>
            /\ stream_state' = "ended"
            /\ exception' = ""
            /\ iter_left' = 0
            /\ executed' = 0
            /\ last_executed' = None
            /\ last_observation' = None
            /\ UNCHANGED <<conversation_history, last_turn, Slots>>
    /\ UNCHANGED <<Config, otherVars>>

\* main.py 440-447: the test the /approve command makes before it starts the
\* approved stream.
ApproveGuard == TruthyCode(last_code_for_approval)

\* main.py 440-447 and 551-561: Jarvis.handle_user_command("/approve");
\* stream_interpreter_response prints "Jarvis:" and drains run_approved_code().
HandleApprove ==
    \/ /\ ApproveGuard
       /\ ui_print' = "Jarvis:"
       /\ RunApprovedCode
    \/ /\ ~ApproveGuard
       /\ NoStreamActive
       /\ ui_print' = "No code to approve."
       /\ UNCHANGED <<Config, conversation_history, last_turn, Slots, stream,
                      stream_state, exception, iter_left, final_response, events,
                      last_observation, requests, decisions, executed, last_executed,
                      hist_mark, calls, otherVars>>

\* A direct call of Interpreter.run_approved_code().
CallRunApprovedCode ==
    /\ RunApprovedCode
    /\ UNCHANGED ui_print

\* main.py 423-438: /safety on|off.
SetSafety ==
    \E on \in BOOLEAN :
       /\ safety_mode' = on
       /\ ui_print' = IF on THEN "Safety mode enabled." ELSE "Safety mode disabled."
       /\ UNCHANGED <<client, is_ready, os_mode, max_iterations, conversation_history,
                      last_turn, Slots, stream, stream_state, exception, iter_left,
                      final_response, events, last_observation, requests, decisions,
                      executed, last_executed, hist_mark, calls, otherVars>>

Next ==
    \/ Run
    \/ LoopIteration
    \/ CallRunApprovedCode
    \/ HandleApprove
    \/ SetSafety

Spec == Init /\ [][Next]_vars

\* ---------------------------------------------------------------- claims

Last(seq) == seq[Len(seq)]

\* The events that end a loop: the final answer and the loop-level failures.
FinalEvents == {FinalAnswer, NoResponse, NotReady}

HasFinal(evs) == \E i \in 1..Len(evs) : evs[i] \in FinalEvents

\* A step of the current stream (no new stream is started by it).
SameStream == calls' = calls

\* A step that starts the stream of run_approved_code().
ApprovedStreamStarts == calls' = calls + 1 /\ stream' = "approved"

\* C1: at most one action is staged for approval: the staged code and the staged
\* tool call are never both set (a decision staged while another is staged
\* replaces it).
C1_AtMostOneStaged ==
    ~(TruthyCode(last_code_for_approval) /\ TruthyTool(last_tool_for_approval))

\* C2: while safety_mode is on, a step of run()'s stream executes no action and
\* appends no assistant turn; on a Code or ExternalCall decision it stages that
\* action, its last event is the approval prompt and the stream has ended.
C2_SafetyGateStagesOnly ==
    [][ (stream = "run" /\ SameStream /\ safety_mode)
        => /\ executed' = executed
           /\ last_executed' = last_executed
           /\ AssistantTurns(conversation_history') = AssistantTurns(conversation_history)
           /\ (requests' = requests + 1
               /\ final_response'[1].tool_type \in {"python", "external"})
              => /\ stream_state' = "ended"
                 /\ Last(events') = ApprovalRequired
                 /\ Observations(events') = Observations(events)
                 /\ final_response'[1].tool_type = "python"
                    => last_code_for_approval' = Some(final_response'[1].code)
                 /\ final_response'[1].tool_type = "external"
                    => last_tool_for_approval' =
                         Some([tool_name |-> final_response'[1].tool_name,
                               args |-> final_response'[1].args])
      ]_vars

\* C2 witness: run() has staged an external tool call under the safety gate, the
\* approval prompt was its last event, nothing was executed or appended.
C2_Witness ==
    /\ stream = "run"
    /\ safety_mode
    /\ stream_state = "ended"
    /\ final_response # None
    /\ final_response[1].tool_type = "external"
    /\ last_tool_for_approval # None
    /\ last_tool_for_approval[1].tool_name = final_response[1].tool_name
    /\ Last(events) = ApprovalRequired
    /\ executed = 0
    /\ AssistantTurns(conversation_history) = 0

\* C3: run_approved_code() called with an action staged consumes it: the slot is
\* cleared, exactly that action is executed once, one assistant turn with its
\* output is appended, its observation is emitted, and the loop is entered.
C3_ApprovedActionConsumed ==
    [][ (ApprovedStreamStarts
         /\ (TruthyCode(last_code_for_approval) \/ TruthyTool(last_tool_for_approval)))
        => /\ executed' = 1
           /\ last_executed' # None
           /\ \/ /\ TruthyCode(last_code_for_approval)
                 /\ last_executed'[1] = CodeAction(last_code_for_approval[1])
                 /\ last_code_for_approval' = None
              \/ /\ TruthyTool(last_tool_for_approval)
                 /\ last_executed'[1] = ToolAction(last_tool_for_approval[1].tool_name,
                                                   last_tool_for_approval[1].args)
                 /\ last_tool_for_approval' = None
           /\ AssistantTurns(conversation_history') =
                AssistantTurns(conversation_history) + 1
           /\ Observations(events') = 1
           /\ last_turn'[1].role = "assistant"
           /\ last_turn'[1].action = last_executed'[1].action
           /\ last_turn'[1].output = last_observation'[1]
           /\ exception' = ""
           /\ iter_left' = max_iterations
           /\ stream_state' = EnterLoop(max_iterations)
      ]_vars

\* A step in which Jarvis handled the /approve command: it printed "Jarvis:" and
\* started the approved stream, or it printed the refusal.
ApproveHandled ==
    \/ ui_print' = "Jarvis:" /\ ApprovedStreamStarts
    \/ ui_print' = "No code to approve." /\ ui_print # "No code to approve."

\* C4: whenever a code fragment or an external tool call is staged, handling
\* /approve starts the approved stream and the staged action gets executed.
C4_ApproveCommitsAnyKind ==
    [][ (ApproveHandled
         /\ (TruthyCode(last_code_for_approval) \/ TruthyTool(last_tool_for_approval)))
        => /\ ApprovedStreamStarts
           /\ last_executed' # None
           /\ last_executed'[1] \in
                {CodeAction(last_code_for_approval[c]) : c \in DOMAIN last_code_for_approval}
                \cup {ToolAction(last_tool_for_approval[t].tool_name,
                                 last_tool_for_approval[t].args) :
                        t \in DOMAIN last_tool_for_approval}
      ]_vars

\* run()'s loop has left its for loop because the range was exhausted.
CeilingReached ==
    /\ stream = "run"
    /\ is_ready
    /\ ~safety_mode
    /\ stream_state = "ended"
    /\ iter_left = 0

\* C5: when the loop of run() ends because no decision was Final, it has run
\* max_iterations iterations and emitted max_iterations observations, and its
\* last event is one synthesized final event (not an observation); for
\* max_iterations = 0 that event is the only one.
C5_CeilingFinal ==
    CeilingReached
    => /\ requests = max_iterations
       /\ Observations(events) = max_iterations
       /\ Len(events) > 0
       /\ Last(events).kind = "result"
       /\ Last(events) # Observation
       /\ max_iterations = 0 => Len(events) = 1

\* C6: a failing action never ends the loop: for the action the stream started
\* to run last, no exception has left the stream, its output (the failure text
\* included) was emitted as the observation and is the output of the assistant
\* turn appended for it.
C6_FailureIsObservation ==
    last_executed # None
    => /\ stream_state # "raised"
       /\ last_observation # None
       /\ Observations(events) = executed
       /\ executed > 0
       /\ \E i \in 1..Len(conversation_history) :
             conversation_history[i].role = "assistant"

\* C7: when the orchestrator cannot produce a decision (no client, an exception
\* while streaming, an empty stream), the stream has ended with a final event
\* naming the cause and no exception has left it.
C7_NoDecisionEndsWithFinal ==
    /\ (final_response # None /\ final_response[1].tool_type \in {"none", "raised"})
       => /\ stream_state = "ended"
          /\ exception = ""
          /\ Last(events) = NoResponse
    /\ (stream = "run" /\ ~client)
       => /\ stream_state = "ended"
          /\ events = <<NotReady>>
          /\ executed = 0

C9_ObservationPerExecution ==
    (stream_state = "ended" /\ Len(events) > 0 /\ Last(events) \in FinalEvents)
    => Observations(events) = executed

\* C9 witness: an approved stream ran the staged action, ran another action in
\* its loop and ended with the final answer: two observations.
C9_Witness ==
    /\ stream = "approved"
    /\ stream_state = "ended"
    /\ Last(events) = FinalAnswer
    /\ executed = 2
    /\ Observations(events) = 2
    /\ decisions = 2

\* C10: a final event is the last event of its stream: only the last event of a
\* stream is a final event, the stream has then ended, and until another stream
\* is started no event, request, execution or history update follows.
C10_FinalIsLast ==
    [][ /\ \A i \in 1..Len(events') :
              events'[i] \in FinalEvents => (i = Len(events') /\ stream_state' = "ended")
        /\ (HasFinal(events) /\ SameStream)
           => UNCHANGED <<events, requests, decisions, executed, last_executed,
                          conversation_history, last_turn, stream_state,
                          last_code_for_approval, last_tool_for_approval>>
      ]_vars

\* C10 witness: an approved stream got a Final decision with iterations left.
C10_Witness ==
    /\ stream = "approved"
    /\ HasFinal(events)
    /\ Last(events) = FinalAnswer
    /\ iter_left > 0
    /\ stream_state = "ended"

\* ------------------------------------------------- commands on threads

\* Commands that reach the default branch of handle_user_command (main.py
\* 515-521): a task in words, and /cancel, for which the handler has no
\* branch of its own.
Commands == {"task", "/cancel"}

\* The stream-level variables of the single-consumer view stay as they are.
StreamVars == <<stream, stream_state, exception, iter_left, final_response, events,
                last_observation, requests, decisions, executed, last_executed,
                hist_mark, ui_print, calls>>

\* The owners of the turns after the screenshot step (interpreter.py 116-136).
OwnersSent(t) == IF os_mode THEN Append(turn_owner, t) ELSE turn_owner

\* The threads whose staged action the Interpreter holds.
StagedOwners == {slot_owner[k][1] : k \in {k \in {"code", "tool"} : slot_owner[k] # None}}

Running(t) == t_state[t] = "active"

\* main.py 826-834, 515-521, 551-561 and interpreter.py 199-208: a thread is
\* started for a command; it calls run(command), which appends the user turn.
TaskStart(t, cmd) ==
    /\ t_state[t] = "idle"
    /\ t_command' = [t_command EXCEPT ![t] = cmd]
    /\ overlaps' = [u \in Threads |->
                      IF u = t THEN {v \in Threads : Running(v)}
                      ELSE IF Running(u) THEN overlaps[u] \cup {t}
                      ELSE overlaps[u]]
    /\ cancel_seen' = IF cmd = "/cancel"
                      THEN cancel_seen \cup {u \in Threads : Running(u)}
                      ELSE cancel_seen
    /\ IF ~is_ready
       THEN \* main.py 519-521: the message is printed, run() is not called
            /\ t_state' = [t_state EXCEPT ![t] = "ended"]
            /\ UNCHANGED <<t_left, conversation_history, last_turn, turn_owner>>
       ELSE /\ conversation_history' = AppendTurn(conversation_history, UserTurn)
            /\ last_turn' = Some(UserTurn)
            /\ turn_owner' = Append(turn_owner, t)
            /\ t_left' = [t_left EXCEPT ![t] = max_iterations]
            /\ t_state' = [t_state EXCEPT ![t] = EnterLoop(max_iterations)]
    /\ UNCHANGED <<Config, Slots, StreamVars, t_requests, t_sent, t_last, slot_owner,
                   besideTasks>>

\* An iteration of thread t that appends no assistant turn ends as st with the
\* event ev yielded last.
TaskEndsWithout(t, ev, st) ==
    /\ conversation_history' = HistorySent
    /\ last_turn' = LastSent
    /\ turn_owner' = OwnersSent(t)
    /\ t_last' = [t_last EXCEPT ![t] = Some(ev)]
    /\ t_state' = [t_state EXCEPT ![t] = st]
    /\ UNCHANGED t_left

\* An iteration of thread t ran an action that returned output.
TaskExecuted(t, turn) ==
    /\ conversation_history' = AppendTurn(HistorySent, turn)
    /\ last_turn' = Some(turn)
    /\ turn_owner' = Append(OwnersSent(t), t)
    /\ t_last' = [t_last EXCEPT ![t] = Some(Observation)]
    /\ t_left' = [t_left EXCEPT ![t] = t_left[t] - 1]
    /\ t_state' = [t_state EXCEPT ![t] = AfterIteration(t_left[t])]

\* interpreter.py 113-197: one iteration of _run_loop made by thread t on the
\* shared Interpreter.  Taking the iteration as one step leaves out the
\* interleavings inside it.
TaskIteration(t) ==
    /\ Running(t)
    /\ t_left[t] > 0
    /\ t_requests' = [t_requests EXCEPT ![t] = t_requests[t] + 1]
    /\ t_sent' = [t_sent EXCEPT ![t] = [owners |-> OwnersSent(t), staged |-> StagedOwners]]
    /\ \E fr \in OrchestratorResults(client) :
         \/ /\ fr.tool_type = "raised"
            /\ TaskEndsWithout(t, Event("status", "Thinking"), "raised")
            /\ UNCHANGED <<Slots, slot_owner>>
         \/ /\ fr.tool_type = "none"
            /\ TaskEndsWithout(t, NoResponse, FinalBreak)
            /\ UNCHANGED <<Slots, slot_owner>>
         \/ /\ fr.tool_type = "final"
            /\ TaskEndsWithout(t, FinalAnswer, FinalBreak)
            /\ UNCHANGED <<Slots, slot_owner>>
         \/ /\ fr.tool_type = "python"
            /\ SafetyGate(safety_mode)
            /\ last_code_for_approval' = Stage(fr.code)
            /\ slot_owner' = [slot_owner EXCEPT !.code = Some(t)]
            /\ TaskEndsWithout(t, ApprovalRequired, ApprovalBreak)
            /\ UNCHANGED last_tool_for_approval
         \/ /\ fr.tool_type = "python"
            /\ ~SafetyGate(safety_mode)
            /\ \E outcome \in CodeOutcomes(fr.code, os_mode) :
                 TaskExecuted(t, CodeTurn(fr.code, ExecuteCode(fr.code, outcome).output,
                                          os_mode))
            /\ UNCHANGED <<Slots, slot_owner>>
         \/ /\ fr.tool_type = "external"
            /\ SafetyGate(safety_mode)
            /\ last_tool_for_approval' = Stage([tool_name |-> fr.tool_name, args |-> fr.args])
            /\ slot_owner' = [slot_owner EXCEPT !.tool = Some(t)]
            /\ TaskEndsWithout(t, ApprovalRequired, ApprovalBreak)
            /\ UNCHANGED last_code_for_approval
         \/ /\ fr.tool_type = "external"
            /\ ~SafetyGate(safety_mode)
            /\ \E outcome \in ProgOutcomes(RegisteredPrograms, fr.tool_name) :
                 LET r == ExecuteProgram(RegisteredPrograms, fr.tool_name, outcome)
                 IN IF r.raised
                    THEN TaskEndsWithout(t, Event("status", "Executing"), "raised")
                    ELSE TaskExecuted(t, ToolTurn(fr.tool_name, fr.args, r.output))
            /\ UNCHANGED <<Slots, slot_owner>>
    /\ UNCHANGED <<Config, StreamVars, t_command, overlaps, cancel_seen, besideTasks>>

StartCommand ==
    /\ \E t \in Threads, cmd \in Commands : TaskStart(t, cmd)
    /\ UNCHANGED extraVars

ThreadStep ==
    /\ \E t \in Threads : TaskIteration(t)
    /\ UNCHANGED extraVars

TasksNext == StartCommand \/ ThreadStep

SpecTasks == Init /\ [][TasksNext]_vars

\* C11: tasks handled at the same time do not share history: the history a
\* task's request sends holds no turn appended by a task that ran while it
\* did, and the staged slots it sees hold no action staged by such a task.
C11_TasksOwnHistory ==
    \A t \in Threads :
       /\ \A i \in 1..Len(t_sent[t].owners) : t_sent[t].owners[i] \notin overlaps[t]
       /\ t_sent[t].staged \cap overlaps[t] = {}

\* C12: once cancel has been signalled to a running task, the task makes no
\* further orchestrator request, and when its stream has ended its last event
\* is a final event (not an observation, a status or an approval prompt).
C12_CancelEndsTask ==
    [][ \A t \in Threads :
          t \in cancel_seen
          => /\ t_requests'[t] = t_requests[t]
             /\ (t_state'[t] # "active" => (t_last'[t] # None /\ t_last'[t][1] \in FinalEvents))
      ]_vars

\* ------------------------------------------------------- the tool tables

\* No Interpreter is in use: its fields keep one value.
InterpreterOff ==
    /\ client = FALSE
    /\ is_ready = FALSE
    /\ safety_mode = TRUE
    /\ os_mode = FALSE
    /\ max_iterations = 0
    /\ conversation_history = <<>>
    /\ last_turn = None
    /\ last_code_for_approval = None
    /\ last_tool_for_approval = None
    /\ stream = "none"
    /\ stream_state = "idle"
    /\ exception = ""
    /\ iter_left = 0
    /\ final_response = None
    /\ events = <<>>
    /\ last_observation = None
    /\ requests = 0
    /\ decisions = 0
    /\ executed = 0
    /\ last_executed = None
    /\ hist_mark = 0
    /\ ui_print = ""
    /\ calls = 0

\* The variables a step on the tool tables leaves alone.
besideRegistry == <<interpreterVars, tasksVars, cleaned, g_name, g_pc, g_inst, g_ret,
                    intentVars, workflowVars, extraVars>>

\* How the build command of a project ends (code_execution_manager.py 88-102):
\* exit 0 with the executable written, exit 0 with nothing written, a nonzero
\* exit (CalledProcessError), a build template with a foreign placeholder.
BuildOutcomes == {"ok", "no_output", "CalledProcessError", "KeyError"}

\* code_execution_manager.py 64-73: the executable is missing, or a source file
\* is missing or newer than it.
NeedsCompilation(exists, newer) == ~exists \/ newer

\* code_execution_manager.py 88-95: the executable exists after the build step.
ExistsAfter(exists, newer, out) ==
    IF NeedsCompilation(exists, newer) /\ out = "ok" THEN TRUE ELSE exists

\* code_execution_manager.py 97-102: the build raised and the function returned
\* before the registration.
BuildRaised(exists, newer, out) ==
    NeedsCompilation(exists, newer) /\ out \in {"CalledProcessError", "KeyError"}

\* code_execution_manager.py 104-111: the project gets (re)registered.
Registers(exists, newer, out) ==
    ~BuildRaised(exists, newer, out) /\ ExistsAfter(exists, newer, out)

\* The build of the project failed: it exited nonzero, or it left no executable.
BuildFailed(exists, newer, out) ==
    /\ NeedsCompilation(exists, newer)
    /\ \/ out = "CalledProcessError"
       \/ out = "no_output" /\ ~exists

\* code_execution_manager.py 17-45: one discovery pass over the projects present.
ScanAndRegister ==
    /\ scans < MaxScans
    /\ scans' = scans + 1
    /\ \E present \in SUBSET Names, newer \in SUBSET Names, out \in [Names -> BuildOutcomes] :
         /\ executable' = [n \in Names |->
                             IF n \in present
                             THEN ExistsAfter(executable[n], n \in newer, out[n])
                             ELSE executable[n]]
         /\ registered_programs' =
              registered_programs \cup
              {n \in present : Registers(executable[n], n \in newer, out[n])}
         /\ build_failed' = {n \in present : BuildFailed(executable[n], n \in newer, out[n])}
    /\ UNCHANGED <<plugins, packages, instances, last_execute, besideRegistry>>

\* extension_manager.py 31-52: every .py file of the package directory that
\* defines run() is stored under its file name.
ScanPackages ==
    /\ \E files \in SUBSET Names : packages' = packages \cup files
    /\ UNCHANGED <<plugins, registered_programs, executable, build_failed, scans,
                   instances, last_execute, besideRegistry>>

\* PluginManager.py 69: the table with the instance stored under the name.
StorePlugin(table, name, inst) ==
    [n \in DOMAIN table \cup {name} |-> IF n = name THEN inst ELSE table[n]]

\* extension_manager.py 90-113: execute(name); get_plugin loads the plugin when
\* it is not in the table and a plugin class of that name can be imported.
Execute(name) ==
    /\ \E importable \in BOOLEAN :
         IF name \notin DOMAIN plugins /\ importable
         THEN /\ instances' = [instances EXCEPT ![name] = instances[name] + 1]
              /\ plugins' = StorePlugin(plugins, name, <<name, instances[name] + 1>>)
              /\ last_execute' = "plugin"
         ELSE /\ UNCHANGED <<plugins, instances>>
              /\ last_execute' = IF name \in DOMAIN plugins THEN "plugin"
                                 ELSE IF name \in packages THEN "package"
                                 ELSE IF name \in registered_programs THEN "program"
                                 ELSE "ValueError"
    /\ UNCHANGED <<packages, registered_programs, executable, build_failed, scans,
                   besideRegistry>>

ExecuteTool == \E name \in Names : Execute(name)

\* The order in which the names of a table are listed.
NameSeq == <<"n1", "n2">>

Listed(table, kind) ==
    LET keep(n) == n \in table
        names == SelectSeq(NameSeq, keep)
    IN [i \in 1..Len(names) |-> [name |-> names[i], type |-> kind]]

\* extension_manager.py 54-88: get_all_tools lists the plugins, the programs
\* and the packages, in that order.
GetAllTools ==
    Listed(DOMAIN plugins, "plugin") \o Listed(registered_programs, "program")
    \o Listed(packages, "package")

RegistryNext == ScanAndRegister \/ ScanPackages \/ ExecuteTool

RegistryInitial ==
    /\ InterpreterOff
    /\ TasksInit
    /\ RegistryInit
    /\ LazyInit
    /\ IntentsInit
    /\ WorkflowOff
    /\ ExtraOff

SpecRegistry == RegistryInitial /\ [][RegistryNext]_vars

\* The tables that hold the name n.
KindsOf(n) ==
    {k \in {"plugin", "package", "program"} :
        \/ k = "plugin" /\ n \in DOMAIN plugins
        \/ k = "package" /\ n \in packages
        \/ k = "program" /\ n \in registered_programs}

\* C13: every tool name is owned by one kind: no name is in more than one of
\* the plugin, package and program tables, and get_all_tools() lists each name
\* once.
C13_OneKindPerName ==
    /\ \A n \in Names : Cardinality(KindsOf(n)) <= 1
    /\ \A i, j \in 1..Len(GetAllTools) :
          GetAllTools[i].name = GetAllTools[j].name => i = j

\* C14: a program whose build failed in the latest discovery pass is not
\* registered: it is not in the program table, not in the catalogue, and
\* execute() does not find it as a program.
C14_FailedBuildNotRegistered ==
    \A n \in build_failed :
       /\ n \notin registered_programs
       /\ \A i \in 1..Len(GetAllTools) :
             ~(GetAllTools[i].name = n /\ GetAllTools[i].type = "program")

\* ------------------------------------------------------ lazy plugin load

\* The plugin names for which a module <name>Plugin with a valid class
\* <name>Plugin exists; for the others import_module raises ModuleNotFoundError.
Importable == {"n1"}

\* The variables a step inside get_plugin leaves alone.
besideLazy == <<interpreterVars, tasksVars, packages, registered_programs, executable,
                build_failed, scans, last_execute, intentVars, workflowVars, extraVars>>

\* PluginManager.py 99-101: a thread calls get_plugin(name) and looks the name
\* up in the table.
CheckCache(t, name) ==
    /\ g_pc[t] = "idle"
    /\ g_name' = [g_name EXCEPT ![t] = name]
    /\ g_pc' = [g_pc EXCEPT ![t] = IF name \in DOMAIN plugins THEN "return" ELSE "load"]
    /\ UNCHANGED <<plugins, instances, cleaned, g_inst, g_ret, besideLazy>>

\* PluginManager.py 55-62 and 72-77: load_plugin imports the module, creates
\* the instance and initializes it; a failed import returns None.
Instantiate(t) ==
    /\ g_pc[t] = "load"
    /\ IF g_name[t] \in Importable
       THEN /\ instances' = [instances EXCEPT ![g_name[t]] = instances[g_name[t]] + 1]
            /\ g_inst' = [g_inst EXCEPT ![t] = Some(<<g_name[t], instances[g_name[t]] + 1>>)]
            /\ g_pc' = [g_pc EXCEPT ![t] = "duplicate"]
       ELSE /\ g_pc' = [g_pc EXCEPT ![t] = "return"]
            /\ UNCHANGED <<instances, g_inst>>
    /\ UNCHANGED <<plugins, cleaned, g_name, g_ret, besideLazy>>

\* PluginManager.py 64-67 and 79-97: a plugin already stored under the name is
\* unloaded: popped from the table and cleaned up.
UnloadDuplicate(t) ==
    /\ g_pc[t] = "duplicate"
    /\ IF g_name[t] \in DOMAIN plugins
       THEN /\ cleaned' = cleaned \cup {plugins[g_name[t]]}
            /\ plugins' = [n \in DOMAIN plugins \ {g_name[t]} |-> plugins[n]]
       ELSE UNCHANGED <<cleaned, plugins>>
    /\ g_pc' = [g_pc EXCEPT ![t] = "store"]
    /\ UNCHANGED <<instances, g_name, g_inst, g_ret, besideLazy>>

\* PluginManager.py 69-71: the new instance is stored.
StoreInstance(t) ==
    /\ g_pc[t] = "store"
    /\ plugins' = StorePlugin(plugins, g_name[t], g_inst[t][1])
    /\ g_pc' = [g_pc EXCEPT ![t] = "return"]
    /\ UNCHANGED <<instances, cleaned, g_name, g_inst, g_ret, besideLazy>>

\* PluginManager.py 110: return self.plugins.get(name).
ReturnPlugin(t) ==
    /\ g_pc[t] = "return"
    /\ g_ret' = [g_ret EXCEPT ![t] = Some(IF g_name[t] \in DOMAIN plugins
                                         THEN Some(plugins[g_name[t]]) ELSE None)]
    /\ g_pc' = [g_pc EXCEPT ![t] = "done"]
    /\ UNCHANGED <<plugins, instances, cleaned, g_name, g_inst, besideLazy>>

GetPlugin ==
    \E t \in Threads :
       \/ \E name \in Names : CheckCache(t, name)
       \/ Instantiate(t)
       \/ UnloadDuplicate(t)
       \/ StoreInstance(t)
       \/ ReturnPlugin(t)

LazyNext == GetPlugin

SpecLazy == RegistryInitial /\ [][LazyNext]_vars

\* C15: a plugin requested by several threads at once is instantiated and
\* initialized once, no instance handed out is cleaned up, and every requester
\* of a loadable name gets the same instance.
C15_LoadedOnce ==
    /\ \A n \in Names : instances[n] <= 1
    /\ \A t, u \in Threads :
          (g_pc[t] = "done" /\ g_pc[u] = "done" /\ g_name[t] = g_name[u])
          => g_ret[t] = g_ret[u]
    /\ \A t \in Threads :
          (g_pc[t] = "done" /\ g_name[t] \in Importable)
          => (g_ret[t][1] # None /\ g_ret[t][1][1] \notin cleaned)

\* ------------------------------------------------------ the intent table

\* The variables a step on the intent table leaves alone.
besideIntents == <<interpreterVars, tasksVars, registryVars, lazyVars, workflowVars,
                   extraVars>>

IntentNames == {"i1", "i2"}

\* func.__doc__ of a handler: None or "" (both false in `if not docstring`),
\* or a text.
Docstrings == {"", "doc"}

\* What a handler does when it is called: it returns a value, returns None,
\* or raises an Exception.
Behaviours == {"value", "none", "raises"}

Position(table, name) ==
    IF \E i \in 1..Len(table) : table[i].name = name
    THEN CHOOSE i \in 1..Len(table) : table[i].name = name
    ELSE 0

\* intent_dispatcher.py 14-27: register binds the name; a dict keeps the place
\* of a key that is bound again.
Bind(table, entry) ==
    IF Position(table, entry.name) = 0
    THEN Append(table, entry)
    ELSE [table EXCEPT ![Position(table, entry.name)] = entry]

Register ==
    /\ \E name \in IntentNames, doc \in Docstrings, b \in Behaviours :
         intents' = Bind(intents, [name |-> name, docstring |-> doc, behaviour |-> b])
    /\ match_in' = None
    /\ match_result' = None
    /\ dispatch_in' = None
    /\ dispatch_result' = None
    /\ UNCHANGED <<dispatches, handler_calls, escaped, besideIntents>>

\* intent_dispatcher.py 79: the intents the loop scores.
Scored(table) == {table[i].name : i \in {i \in 1..Len(table) : table[i].docstring # ""}}

\* algorithms.text_cosine_similarity returns a score in [0, 1].
Similarities(table) == [Scored(table) -> 0..MaxSim]

\* Thresholds below every score, between the scores, and above every score.
Thresholds == (0 - MaxSim - 1)..(MaxSim + 1)

\* intent_dispatcher.py 76: highest_similarity = -1.0.
LowestSimilarity == 0 - MaxSim

\* intent_dispatcher.py 87 written with > instead of >=.
StrictlyAbove(highest, threshold) == highest > threshold

\* intent_dispatcher.py 87: highest_similarity >= threshold.
MeetsThreshold(highest, threshold) == highest >= threshold

RECURSIVE BestMatch(_, _, _, _, _)
\* intent_dispatcher.py 78-85: the loop over the intents from position i on.
BestMatch(table, sim, i, best, highest) ==
    IF i > Len(table) THEN [best |-> best, highest |-> highest]
    ELSE IF table[i].docstring = "" THEN BestMatch(table, sim, i + 1, best, highest)
    ELSE IF sim[table[i].name] > highest
         THEN BestMatch(table, sim, i + 1, Some(table[i].name), sim[table[i].name])
         ELSE BestMatch(table, sim, i + 1, best, highest)

\* intent_dispatcher.py 60-92: match_intent_locally.
MatchIntentLocally(table, sim, threshold) ==
    IF Len(table) = 0 THEN None
    ELSE LET r == BestMatch(table, sim, 1, None, LowestSimilarity)
         IN IF MeetsThreshold(r.highest, threshold) THEN r.best ELSE None

Match ==
    /\ \E sim \in Similarities(intents), threshold \in Thresholds :
         /\ match_in' = Some([sim |-> sim, threshold |-> threshold])
         /\ match_result' = MatchIntentLocally(intents, sim, threshold)
    /\ dispatch_in' = None
    /\ dispatch_result' = None
    /\ UNCHANGED <<intents, dispatches, handler_calls, escaped, besideIntents>>

\* What calling a handler gives: an exception or a return value.
CallHandler(b) ==
    [raised |-> b = "raises", value |-> IF b = "value" THEN Some("v") ELSE None]

\* A dispatch without the try/except around the handler call.
Propagate(r) ==
    IF r.raised THEN [escaped |-> "Exception", value |-> None]
    ELSE [escaped |-> "", value |-> r.value]

\* intent_dispatcher.py 46-50: the try/except around the handler call.
CatchException(r) ==
    IF r.raised THEN [escaped |-> "", value |-> None]
    ELSE [escaped |-> "", value |-> r.value]

\* intent_dispatcher.py 29-50: dispatch(intent_name, **kwargs).
Dispatch(name) ==
    /\ dispatches < MaxDispatch
    /\ dispatches' = dispatches + 1
    /\ dispatch_in' = Some(name)
    /\ IF Position(intents, name) = 0
       THEN /\ dispatch_result' = None
            /\ escaped' = ""
            /\ UNCHANGED handler_calls
       ELSE LET r == CatchException(CallHandler(intents[Position(intents, name)].behaviour))
            IN /\ handler_calls' = handler_calls + 1
               /\ dispatch_result' = r.value
               /\ escaped' = r.escaped
    /\ match_in' = None
    /\ match_result' = None
    /\ UNCHANGED <<intents, besideIntents>>

DispatchIntent == \E name \in IntentNames \cup {"unknown"} : Dispatch(name)

IntentsNext == Register \/ Match \/ DispatchIntent

SpecIntents == RegistryInitial /\ [][IntentsNext]_vars

\* C16: match_intent_locally returns None exactly when every scored intent's
\* similarity is below the threshold; otherwise it returns an intent whose
\* similarity is the maximum and at least the threshold.
C16_MatchIsArgMax ==
    match_in # None
    => LET sim == match_in[1].sim
           threshold == match_in[1].threshold
       IN /\ match_result = None <=> \A n \in Scored(intents) : sim[n] < threshold
          /\ match_result # None
             => /\ match_result[1] \in Scored(intents)
                /\ sim[match_result[1]] >= threshold
                /\ \A n \in Scored(intents) : sim[n] <= sim[match_result[1]]

\* C16 witness: two intents are scored, both reach the threshold, the second
\* scores higher and is returned, the threshold being met exactly.
C16_Witness ==
    /\ match_in # None
    /\ Len(intents) = 2
    /\ Scored(intents) = IntentNames
    /\ match_in[1].sim[intents[1].name] < match_in[1].sim[intents[2].name]
    /\ match_in[1].sim[intents[2].name] = match_in[1].threshold
    /\ match_result = Some(intents[2].name)

\* C17: dispatch never propagates a failure: for an unknown name it returns
\* None without calling a handler, when the handler raises it returns None, no
\* exception reaches the caller and the intent table is unchanged.
C17_DispatchNeverRaises ==
    [][ dispatches' = dispatches + 1
        => /\ escaped' = ""
           /\ intents' = intents
           /\ Position(intents, dispatch_in'[1]) = 0
              => (dispatch_result' = None /\ handler_calls' = handler_calls)
           /\ (/\ Position(intents, dispatch_in'[1]) # 0
               /\ intents[Position(intents, dispatch_in'[1])].behaviour = "raises")
              => (dispatch_result' = None /\ handler_calls' = handler_calls + 1)
      ]_vars

\* C17 witness: the handler of a registered intent raised and dispatch returned
\* None; an unknown name had been dispatched before.
C17_Witness ==
    /\ dispatches = 2
    /\ handler_calls = 1
    /\ dispatch_in # None
    /\ Position(intents, dispatch_in[1]) # 0
    /\ intents[Position(intents, dispatch_in[1])].behaviour = "raises"
    /\ dispatch_result = None
    /\ escaped = ""

\* ------------------------------------------------------------- the workflow

\* The variables a step of the WorkflowManager leaves alone.
besideWorkflow == <<interpreterVars, tasksVars, registryVars, lazyVars, intentVars,
                    extraVars>>

\* The module names of a configuration file: every one has a line.
Modules == {"a", "b", "c"}

\* workflow_manager.py 49: the cost column of a line, int(parts[1]), of either
\* sign.
Costs == {0 - 1, 0, 1}

\* workflow_manager.py 17: float('inf'); a finite cost n is held as <<n>>.
INFINITY == <<>>

\* How _execute_module ends (workflow_manager.py 146-162): the module's run()
\* returns, the import fails, the module has no run, run() raises.
Outcomes == {"ok", "ImportError", "AttributeError", "Exception"}

\* The orders a list built from the set S may have (list(set(...)), the lines
\* of a file).
Orders(S) ==
    {s \in [1..Cardinality(S) -> S] : \A x \in S : \E i \in DOMAIN s : s[i] = x}

Range(seq) == {seq[i] : i \in DOMAIN seq}

\* dict.get(k): the value of the key, None when absent.
Get(f, k) == IF k \in DOMAIN f THEN f[k] ELSE None

\* workflow_manager.py 54-61: lines is the order of the module lines of the
\* file and deps the pairs <<dep, module>> they declare; graph[dep] lists, in
\* line order, the modules that name dep in their dependency column.
ReadModuleConfig(lines, deps) ==
    [dep \in {e[1] : e \in deps} |->
        SelectSeq(lines, LAMBDA module_name : <<dep, module_name>> \in deps)]

\* The dependency columns a file may hold: at most MaxEdges pairs.
DependencySets ==
    {deps \in SUBSET (Modules \X Modules) : Cardinality(deps) <= MaxEdges}

\* The graphs _read_module_config can build from a file.
Graphs ==
    {ReadModuleConfig(lines, deps) : lines \in Orders(Modules), deps \in DependencySets}

\* workflow_manager.py 173: the set of all_modules.
AllModules(c, g) ==
    DOMAIN c \cup DOMAIN g \cup UNION {Range(g[u]) : u \in DOMAIN g}

\* self.graph.get(u, [])
Adjacent(g, u) == IF u \in DOMAIN g THEN g[u] ELSE <<>>

\* workflow_manager.py 70-75: the number of entries of the adjacency lists that
\* name v.
InDegree(all_modules, g) ==
    [v \in Range(all_modules) \cup DOMAIN g |->
        Cardinality({e \in UNION {{<<u, i>> : i \in DOMAIN g[u]} : u \in DOMAIN g} :
                        g[e[1]][e[2]] = v})]

\* workflow_manager.py 84-87: the neighbours of the node just taken lose one
\* in-degree each and join the queue at zero.
RECURSIVE VisitNeighbours(_, _, _)
VisitNeighbours(adj, in_degree, queue) ==
    IF adj = <<>>
    THEN [in_degree |-> in_degree, queue |-> queue]
    ELSE LET v == Head(adj)
             lowered == [in_degree EXCEPT ![v] = @ - 1]
         IN  VisitNeighbours(Tail(adj), lowered,
                             IF lowered[v] = 0 THEN Append(queue, v) ELSE queue)

\* workflow_manager.py 80-87: the while loop over the queue.
RECURSIVE Kahn(_, _, _, _)
Kahn(g, queue, in_degree, sorted_list) ==
    IF queue = <<>>
    THEN sorted_list
    ELSE LET u == Head(queue)
             visited == VisitNeighbours(Adjacent(g, u), in_degree, Tail(queue))
         IN  Kahn(g, visited.queue, visited.in_degree, Append(sorted_list, u))

\* workflow_manager.py 66-93: _topological_sort; the empty list when a node
\* was never taken (a cycle).
TopologicalSort(all_modules, g) ==
    LET in_degree == InDegree(all_modules, g)
        queue == SelectSeq(all_modules, LAMBDA u : in_degree[u] = 0)
        sorted_list == Kahn(g, queue, in_degree, <<>>)
    IN  IF Len(sorted_list) # Cardinality(DOMAIN in_degree) THEN <<>> ELSE sorted_list

\* The comparison with the operands exchanged.
Worsens(candidate, current) == current = INFINITY \/ candidate > current[1]

\* workflow_manager.py 117: min_costs[u] + weight_v < min_costs[v].
Improves(candidate, current) == current = INFINITY \/ candidate < current[1]

\* workflow_manager.py 115-119: the edges out of u, whose cost is finite.
RECURSIVE RelaxNeighbours(_, _, _, _)
RelaxNeighbours(adj, u, c, found) ==
    IF adj = <<>>
    THEN found
    ELSE LET v == Head(adj)
             weight_v == IF v \in DOMAIN c THEN c[v] ELSE 0
             candidate == found.min_costs[u][1] + weight_v
         IN  RelaxNeighbours(Tail(adj), u, c,
                IF Improves(candidate, found.min_costs[v])
                THEN [min_costs |-> [found.min_costs EXCEPT ![v] = <<candidate>>],
                      predecessors |-> [found.predecessors EXCEPT ![v] = Some(u)]]
                ELSE found)

\* workflow_manager.py 112-119: the loop over the sorted modules.
RECURSIVE Relax(_, _, _, _)
Relax(sorted_modules, g, c, found) ==
    IF sorted_modules = <<>>
    THEN found
    ELSE LET u == Head(sorted_modules)
         IN  IF found.min_costs[u] = INFINITY
             THEN Relax(Tail(sorted_modules), g, c, found)
             ELSE Relax(Tail(sorted_modules), g, c,
                        RelaxNeighbours(Adjacent(g, u), u, c, found))

\* workflow_manager.py 95-121: _find_shortest_path.
FindShortestPath(start, all_modules, g, c) ==
    LET sorted_modules == TopologicalSort(all_modules, g)
        blank == [min_costs |-> [m \in Range(all_modules) |-> INFINITY],
                  predecessors |-> [m \in Range(all_modules) |-> None]]
    IN  IF sorted_modules = <<>>
        THEN blank
        ELSE IF start \notin Range(all_modules)
        THEN blank
        ELSE Relax(sorted_modules, g, c, [blank EXCEPT !.min_costs[start] = <<0>>])

\* workflow_manager.py 133-139: the walk from end_module back along the
\* predecessors; the route is the reverse of the nodes met.
RECURSIVE WalkBack(_, _, _, _)
WalkBack(current, start, preds, route) ==
    IF current = None
    THEN route
    ELSE IF current[1] = start
    THEN <<current[1]>> \o route
    ELSE WalkBack(Get(preds, current[1]), start, preds, <<current[1]>> \o route)

\* workflow_manager.py 123-139: _get_optimal_route.
GetOptimalRoute(start, end, preds) ==
    IF Get(preds, end) = None /\ end # start
    THEN <<>>
    ELSE WalkBack(Some(end), start, preds, <<>>)

\* workflow_manager.py 164-186: run(config_path, start_module, end_module) up
\* to the execution loop: the file is read, the route planned; without a route
\* it returns.
WorkflowRun ==
    /\ wf_state = "new"
    /\ \E g \in Graphs, c \in [Modules -> Costs], start \in Modules, end \in Modules :
         \E all_modules \in Orders(AllModules(c, g)) :
            LET found == FindShortestPath(start, all_modules, g, c)
                route == GetOptimalRoute(start, end, found.predecessors)
            IN  /\ graph' = g
                /\ costs' = c
                /\ start_module' = start
                /\ end_module' = end
                /\ min_costs' = found.min_costs
                /\ predecessors' = found.predecessors
                /\ optimal_route' = route
                /\ wf_state' = IF route = <<>> THEN "noroute" ELSE "running"
    /\ UNCHANGED <<stop_on_error, ran, failed_modules, besideWorkflow>>

\* The exception is swallowed whatever the flag.
NeverReraise(stop) == FALSE

\* workflow_manager.py 153-154, 157-158, 161-162: if self.stop_on_error: raise.
Reraise(stop) == stop

\* workflow_manager.py 188-191 and 141-162: the next module of the route is
\* executed; a failure is logged and, with stop_on_error, raised out of run().
ExecuteModule ==
    /\ wf_state = "running"
    /\ LET module_name == optimal_route[Len(ran) + 1]
       IN  \E outcome \in Outcomes :
             /\ ran' = Append(ran, module_name)
             /\ failed_modules' = IF outcome = "ok"
                                  THEN failed_modules
                                  ELSE failed_modules \cup {module_name}
             /\ wf_state' = IF outcome # "ok" /\ Reraise(stop_on_error)
                            THEN "raised"
                            ELSE IF Len(ran) + 1 = Len(optimal_route)
                            THEN "complete"
                            ELSE "running"
    /\ UNCHANGED <<graph, costs, stop_on_error, start_module, end_module,
                   min_costs, predecessors, optimal_route, besideWorkflow>>

WorkflowNext == WorkflowRun \/ ExecuteModule

\* workflow_manager.py 19-30: a WorkflowManager as constructed, with either
\* value of stop_on_error; nothing else is in use.
WorkflowInit ==
    /\ InterpreterOff
    /\ TasksInit
    /\ RegistryInit
    /\ LazyInit
    /\ IntentsInit
    /\ ExtraOff
    /\ graph = <<>>
    /\ costs = <<>>
    /\ stop_on_error \in BOOLEAN
    /\ start_module = ""
    /\ end_module = ""
    /\ wf_state = "new"
    /\ min_costs = <<>>
    /\ predecessors = <<>>
    /\ optimal_route = <<>>
    /\ ran = <<>>
    /\ failed_modules = {}

SpecWorkflow == WorkflowInit /\ [][WorkflowNext]_vars

\* The edges dep -> module of the graph.
Edges == {e \in Modules \X Modules : e[2] \in Range(Adjacent(graph, e[1]))}

\* The walks of the graph over n nodes.
Walks(n) ==
    LET edges == Edges
    IN  {p \in [1..n -> Modules] : \A i \in 1..(n - 1) : <<p[i], p[i + 1]>> \in edges}

\* The graph holds a closed walk.
HasCycle ==
    \E n \in 2..(Cardinality(Modules) + 1) : \E p \in Walks(n) : p[1] = p[n]

\* The paths of the graph from s to e.
PathsBetween(s, e) ==
    {p \in UNION {Walks(n) : n \in 1..Cardinality(Modules)} :
        p[1] = s /\ p[Len(p)] = e}

\* The sum of cost[v] over the nodes of p after the first.
RECURSIVE PathCost(_)
PathCost(p) == IF Len(p) <= 1 THEN 0 ELSE costs[p[Len(p)]] + PathCost(SubSeq(p, 1, Len(p) - 1))

\* run() has planned.
Planned == wf_state \in {"noroute", "running", "complete", "raised"}

\* C18: for an acyclic graph and an end_module reachable from start_module, the
\* planned route is a path of the graph from start_module to end_module, its
\* cost is min_costs[end_module], and no path from start_module to end_module
\* costs less.
C18_PlanIsCheapestPath ==
    LET paths == PathsBetween(start_module, end_module)
    IN  (Planned /\ ~HasCycle /\ paths # {})
        => /\ optimal_route \in paths
           /\ min_costs[end_module] = <<PathCost(optimal_route)>>
           /\ \A p \in paths : PathCost(optimal_route) <= PathCost(p)

\* C18 witness: the graph holds the edge a -> c and the path a -> b -> c, which
\* is cheaper, and the plan is that path.
C18_Witness ==
    /\ Planned
    /\ ~HasCycle
    /\ <<"a", "c">> \in Edges
    /\ optimal_route = <<"a", "b", "c">>
    /\ PathCost(<<"a", "b", "c">>) < PathCost(<<"a", "c">>)

\* C19: when the graph holds a cycle the plan is empty and no module is
\* executed, whatever start_module and end_module are.
C19_CycleEmptyPlan ==
    (Planned /\ HasCycle) => (optimal_route = <<>> /\ ran = <<>>)

\* The members of seq are distinct.
NoDuplicates(seq) == \A i, j \in DOMAIN seq : seq[i] = seq[j] => i = j

\* C20: the modules executed are a prefix of the route, in route order and
\* each once; with stop_on_error the first failing module is the last one
\* executed and run() has raised; without it run() never raises, a failure is
\* recorded and the execution goes on until the whole route has run.
C20_ExecutionFollowsPlan ==
    /\ Len(ran) <= Len(optimal_route)
    /\ ran = SubSeq(optimal_route, 1, Len(ran))
    /\ NoDuplicates(ran)
    /\ failed_modules \subseteq Range(ran)
    /\ stop_on_error
       => /\ failed_modules # {} <=> wf_state = "raised"
          /\ failed_modules # {} => failed_modules = {ran[Len(ran)]}
    /\ ~stop_on_error
       => /\ wf_state # "raised"
          /\ wf_state = "running" <=> (Planned /\ Len(ran) < Len(optimal_route))
          /\ wf_state = "complete" <=> (Planned /\ optimal_route # <<>> /\ ran = optimal_route)

\* C20 witness: with stop_on_error the second module of a route of three
\* failed, run() raised and the third module was not executed.
C20_Witness ==
    /\ stop_on_error
    /\ wf_state = "raised"
    /\ Len(optimal_route) = 3
    /\ Len(ran) = 2
    /\ failed_modules = {optimal_route[2]}

\* --------------------------------------- the interpreter: further claims

\* C21: with safety_mode off, a step of the loop that receives an
\* ExternalToolCall runs execute_program once with the decision's tool name and
\* arguments, yields the observation with the tool's output as its last event,
\* appends the tool's turn, and leaves the loop active, so that the next
\* decision is requested.
C21_ToolCallThenNextDecision ==
    [][ (/\ requests' = requests + 1
         /\ final_response'[1].tool_type = "external"
         /\ ~safety_mode)
        => /\ executed' = executed + 1
           /\ last_executed' = Some(ToolAction(final_response'[1].tool_name,
                                               final_response'[1].args))
           /\ Last(events') = Observation
           /\ last_observation' # None
           /\ last_turn' = Some(ToolTurn(final_response'[1].tool_name,
                                         final_response'[1].args,
                                         last_observation'[1]))
           /\ exception' = ""
           /\ stream_state' = "active"
      ]_vars

\* ------------------------------------------------- /approve on threads

\* The variables a step of an /approve thread outside the loop leaves alone.
besideApprove == <<registryVars, lazyVars, intentVars, workflowVars, laterVars>>

\* The fields of the thread view of _run_loop that the steps before the loop
\* leave alone.
TaskGhosts == <<t_command, t_requests, t_sent, t_last, slot_owner, overlaps, cancel_seen>>

ApproveStream == <<stream, stream_state, exception, iter_left, final_response, events,
                   last_observation, requests, decisions, executed, last_executed,
                   hist_mark, calls>>

SetPc(t, pc) == ap_pc' = [ap_pc EXCEPT ![t] = pc]

\* main.py 826-834 and 440-447: a thread is started for the /approve command
\* and handle_user_command tests the staged code; with code staged it calls
\* stream_interpreter_response(command, approved=True), which prints "Jarvis:"
\* and creates the generator (551-561), else it prints the refusal.  The
\* text of panel.output_text is not read.
ApproveCommand(t) ==
    /\ ap_pc[t] = "idle"
    /\ IF ApproveGuard
       THEN ui_print' = "Jarvis:" /\ SetPc(t, "called")
       ELSE ui_print' = "No code to approve." /\ SetPc(t, "refused")
    /\ UNCHANGED <<Config, conversation_history, last_turn, Slots, ApproveStream,
                   tasksVars, ap_local, ui_block, approved_runs, staged_count,
                   besideApprove>>

\* A step of thread t that changes its position, and its local value, only.
LocalStep(t, pc, local) ==
    /\ SetPc(t, pc)
    /\ ap_local' = [ap_local EXCEPT ![t] = local]
    /\ UNCHANGED <<interpreterVars, tasksVars, ui_block, approved_runs, staged_count,
                   besideApprove>>

\* interpreter.py 85: if self.last_code_for_approval.
TestCode(t) ==
    /\ ap_pc[t] = "called"
    /\ LocalStep(t, IF TruthyCode(last_code_for_approval) THEN "code_tested" ELSE "no_code",
                 ap_local[t])

\* interpreter.py 86: code = self.last_code_for_approval.
ReadCode(t) ==
    /\ ap_pc[t] = "code_tested"
    /\ LocalStep(t, "code_read", Some(last_code_for_approval))

\* interpreter.py 87-88: the slot is cleared and the status event yielded.
ClearCode(t) ==
    /\ ap_pc[t] = "code_read"
    /\ SetPc(t, "code_cleared")
    /\ last_code_for_approval' = None
    /\ UNCHANGED <<Config, conversation_history, last_turn, last_tool_for_approval,
                   ApproveStream, ui_print, tasksVars, ap_local, ui_block, approved_runs,
                   staged_count, besideApprove>>

\* The thread enters _run_loop (interpreter.py 107) after its turn is appended.
EnterRunLoop(t, turn) ==
    /\ conversation_history' = AppendTurn(conversation_history, turn)
    /\ last_turn' = Some(turn)
    /\ turn_owner' = Append(turn_owner, t)
    /\ t_left' = [t_left EXCEPT ![t] = max_iterations]
    /\ t_state' = [t_state EXCEPT ![t] = EnterLoop(max_iterations)]
    /\ SetPc(t, "loop")

\* How running the local `code` ends; None is no source text, and exec raises.
ApprovedCodeOutcomes(code) ==
    IF code = None THEN {"Exception"} ELSE CodeOutcomes(code[1], os_mode)

\* interpreter.py 90-92 and 107: the code read is executed, its turn appended,
\* its observation yielded.
ExecuteApprovedCode(t) ==
    /\ ap_pc[t] = "code_cleared"
    /\ LET code == ap_local[t][1]
       IN  /\ approved_runs' = Append(approved_runs, [kind |-> "code", action |-> code])
           /\ \E outcome \in ApprovedCodeOutcomes(code) :
                EnterRunLoop(t, CodeTurn(code,
                                         ExecuteCode(IF code = None THEN "" ELSE code[1],
                                                     outcome).output,
                                         os_mode))
    /\ UNCHANGED <<Config, Slots, ApproveStream, ui_print, TaskGhosts, ap_local, ui_block,
                   staged_count, besideApprove>>

\* interpreter.py 94 and 102-104: elif self.last_tool_for_approval; without a
\* tool the stream yields "No action to approve." and returns.
TestTool(t) ==
    /\ ap_pc[t] = "no_code"
    /\ LocalStep(t, IF TruthyTool(last_tool_for_approval) THEN "tool_tested" ELSE "no_action",
                 ap_local[t])

\* interpreter.py 95: tool_name, args = self.last_tool_for_approval; unpacking
\* None raises TypeError.
ReadTool(t) ==
    /\ ap_pc[t] = "tool_tested"
    /\ LocalStep(t, IF last_tool_for_approval = None THEN "raised" ELSE "tool_read",
                 Some(last_tool_for_approval))

\* interpreter.py 96-97.
ClearTool(t) ==
    /\ ap_pc[t] = "tool_read"
    /\ SetPc(t, "tool_cleared")
    /\ last_tool_for_approval' = None
    /\ UNCHANGED <<Config, conversation_history, last_turn, last_code_for_approval,
                   ApproveStream, ui_print, tasksVars, ap_local, ui_block, approved_runs,
                   staged_count, besideApprove>>

\* interpreter.py 98-101 and 107: the tool read is executed.
ExecuteApprovedTool(t) ==
    /\ ap_pc[t] = "tool_cleared"
    /\ LET tool == ap_local[t][1][1]
       IN  /\ approved_runs' = Append(approved_runs, [kind |-> "tool", action |-> Some(tool)])
           /\ \E outcome \in ProgOutcomes(RegisteredPrograms, tool.tool_name) :
                LET r == ExecuteProgram(RegisteredPrograms, tool.tool_name, outcome)
                IN  IF r.raised
                    THEN /\ SetPc(t, "raised")
                         /\ UNCHANGED <<conversation_history, last_turn, turn_owner,
                                        t_left, t_state>>
                    ELSE EnterRunLoop(t, ToolTurn(tool.tool_name, tool.args, r.output))
    /\ UNCHANGED <<Config, Slots, ApproveStream, ui_print, TaskGhosts, ap_local, ui_block,
                   staged_count, besideApprove>>

\* interpreter.py 107: the iterations of _run_loop the thread goes on with; an
\* iteration that ends with the approval prompt has staged an action.
ApprovedLoop(t) ==
    /\ ap_pc[t] = "loop"
    /\ TaskIteration(t)
    /\ staged_count' = IF t_last'[t] = Some(ApprovalRequired)
                       THEN staged_count + 1
                       ELSE staged_count
    /\ UNCHANGED <<ap_pc, ap_local, ui_block, approved_runs, laterVars>>

Approve == \E t \in Threads : ApproveCommand(t)

ApprovedCodeStep ==
    \E t \in Threads : TestCode(t) \/ ReadCode(t) \/ ClearCode(t) \/ ExecuteApprovedCode(t)

ApprovedToolStep ==
    \E t \in Threads : TestTool(t) \/ ReadTool(t) \/ ClearTool(t) \/ ExecuteApprovedTool(t)

ApprovedLoopStep == \E t \in Threads : ApprovedLoop(t)

ApproveNext == Approve \/ ApprovedCodeStep \/ ApprovedToolStep \/ ApprovedLoopStep

\* The tool calls that may be staged.
StagedTools == {[tool_name |-> n, args |-> <<"a">>] : n \in {"prog", "badtmpl"}}

\* A run() has ended with the approval prompt: an action is staged, the panel
\* shows a python code block, which the user may have edited.
ApproveInit ==
    /\ client = TRUE
    /\ is_ready = TRUE
    /\ safety_mode \in BOOLEAN
    /\ os_mode = FALSE
    /\ max_iterations \in 0..MaxIter
    /\ conversation_history = <<Kept(UserTurn)>>
    /\ last_turn = Some(UserTurn)
    /\ last_code_for_approval \in {None} \cup {Some(c) : c \in Codes}
    /\ last_tool_for_approval \in {None} \cup {Some(tl) : tl \in StagedTools}
    /\ (last_code_for_approval # None \/ last_tool_for_approval # None)
    /\ stream = "none"
    /\ stream_state = "idle"
    /\ exception = ""
    /\ iter_left = 0
    /\ final_response = None
    /\ events = <<>>
    /\ last_observation = None
    /\ requests = 0
    /\ decisions = 0
    /\ executed = 0
    /\ last_executed = None
    /\ hist_mark = 0
    /\ ui_print = ""
    /\ calls = 0
    /\ t_command = [t \in Threads |-> "/approve"]
    /\ t_state = [t \in Threads |-> "idle"]
    /\ t_left = [t \in Threads |-> 0]
    /\ t_requests = [t \in Threads |-> 0]
    /\ t_sent = [t \in Threads |-> [owners |-> <<>>, staged |-> {}]]
    /\ t_last = [t \in Threads |-> None]
    /\ turn_owner = <<0>>
    /\ slot_owner = [code |-> None, tool |-> None]
    /\ overlaps = [t \in Threads |-> {}]
    /\ cancel_seen = {}
    /\ RegistryInit
    /\ LazyInit
    /\ IntentsInit
    /\ WorkflowOff
    /\ ap_pc = [t \in Threads |-> "idle"]
    /\ ap_local = [t \in Threads |-> None]
    /\ ui_block \in {None} \cup {Some(c) : c \in Codes \ {""}}
    /\ approved_runs = <<>>
    /\ staged_count = (IF last_code_for_approval # None THEN 1 ELSE 0)
                      + (IF last_tool_for_approval # None THEN 1 ELSE 0)
    /\ LaterOff

SpecApprove == ApproveInit /\ [][ApproveNext]_vars

\* C22: when /approve runs staged code and the panel shows a python code
\* block, the code executed is the code of that block.
C22_ApproveRunsShownCode ==
    [][ \A t \in Threads :
          (ap_pc[t] = "code_cleared" /\ ap_pc'[t] = "loop" /\ ui_block # None)
          => approved_runs'[Len(approved_runs')].action = ui_block
      ]_vars

\* The executions of an action read from a slot that held one.
StagedRuns == {i \in 1..Len(approved_runs) : approved_runs[i].action # None}

\* C30: a staged action is executed at most once, also when /approve is
\* handled on several threads: the executions of staged actions are never more
\* than the actions staged.
C30_StagedExecutedOnce == Cardinality(StagedRuns) <= staged_count

\* ------------------------------------------------------ the program folder

besideFolder == <<interpreterVars, tasksVars, registryVars, lazyVars, intentVars,
                  workflowVars, approveVars, buildVars, replanVars>>

\* What a module file may hold: a run() function or none.
FileKinds == {"run", "norun"}

\* A module file is written to the program folder.
AddModule ==
    \E m \in ProgramFiles, kind \in FileKinds :
       /\ program_folder[m] = "absent"
       /\ program_folder' = [program_folder EXCEPT ![m] = kind]
       /\ fresh' = IF kind = "run" THEN fresh \cup {m} ELSE fresh
       /\ last_op' = "add"
       /\ UNCHANGED <<file_list, programs, besideFolder>>

\* main.py 707-726: os.walk over the folder: every .py file gives a module name.
ScanFolder(folder) == {m \in DOMAIN folder : folder[m] # "absent"}

\* main.py 701-733: the module list is read from file_list.txt when the file
\* exists (package/algorithm.py 5-8); the folder is scanned only when it does
\* not.
ModuleList(list, folder) == IF list # None THEN list[1] ELSE ScanFolder(folder)

\* main.py 738-758: a listed module is loaded when its import succeeds and it
\* has a run attribute.
Loaded(list, folder) == {m \in list : folder[m] = "run"}

\* main.py 682-760: Jarvis.open_programs(program_folder); a generated list is
\* written to file_list.txt (728-730).  The order hybrid_sort_with_progress
\* gives the list does not change the keys of the dict returned.
OpenPrograms ==
    /\ file_list' = Some(ModuleList(file_list, program_folder))
    /\ programs' = Some(Loaded(ModuleList(file_list, program_folder), program_folder))
    /\ fresh' = {}
    /\ last_op' = "open"
    /\ UNCHANGED <<program_folder, besideFolder>>

FolderNext == AddModule \/ OpenPrograms

FolderInitial ==
    /\ InterpreterOff
    /\ TasksInit
    /\ RegistryInit
    /\ LazyInit
    /\ IntentsInit
    /\ WorkflowOff
    /\ ExtraOff

SpecFolder == FolderInitial /\ [][FolderNext]_vars

\* C23: a call of open_programs that follows an earlier call on the same
\* Jarvis returns every module the earlier call returned and every module
\* with a run() function added to the folder since.
C23_OpenProgramsSeesNewModules ==
    [][ (last_op' = "open" /\ programs # None)
        => (programs' # None /\ (programs[1] \cup fresh) \subseteq programs'[1])
      ]_vars

\* ------------------------------------------------------ building a program

besideBuild == <<interpreterVars, tasksVars, registryVars, lazyVars, intentVars,
                 workflowVars, approveVars, folderVars, replanVars>>

Times == 0..MaxTime

\* A file: missing, or present with a modification time.
Files == {None} \cup {Some(m) : m \in Times}

\* A test that takes a source of the executable's own time for newer.
SourceNotOlder(src, exec) == src = None \/ src[1] >= exec[1]

\* code_execution_manager.py 69: the source file is missing or its
\* modification time is greater than the executable's.
SourceNewer(src, exec) == src = None \/ src[1] > exec[1]

\* code_execution_manager.py 64-73: needs_compilation for the files as they are.
NeedsBuild(exec, srcs) ==
    NeedsCompilation(exec # None,
                     exec # None /\ \E f \in DOMAIN srcs : SourceNewer(srcs[f], exec))

\* The latest modification time among the files present.
Latest(exec, srcs) ==
    LET present == {x \in {exec} \cup {srcs[f] : f \in DOMAIN srcs} : x # None}
    IN  IF present = {} THEN 0
        ELSE CHOOSE m \in Times : /\ Some(m) \in present
                                  /\ \A x \in present : x[1] <= m

SetBuildPc(t, pc) == b_pc' = [b_pc EXCEPT ![t] = pc]

\* code_execution_manager.py 62-73: the pass computes needs_compilation.
CheckProject(t) ==
    /\ b_pc[t] = "idle"
    /\ b_needs' = [b_needs EXCEPT ![t] = Some(NeedsBuild(exec_mtime, src_mtime))]
    /\ b_checked' = [b_checked EXCEPT ![t] = Some([exec |-> exec_mtime, srcs |-> src_mtime])]
    /\ b_seen' = [b_seen EXCEPT ![t] = builds]
    /\ SetBuildPc(t, IF NeedsBuild(exec_mtime, src_mtime) THEN "build" ELSE "register")
    /\ UNCHANGED <<exec_mtime, src_mtime, b_built, b_registered, builds, besideBuild>>

\* code_execution_manager.py 75-102: the build command is formatted and run; a
\* build that succeeds writes the executable, now or later than every file
\* present.  KeyError is raised by the formatting, before the command is run.
BuildProject(t) ==
    /\ b_pc[t] = "build"
    /\ \E out \in BuildOutcomes :
         /\ builds' = IF out = "KeyError" THEN builds ELSE builds + 1
         /\ b_built' = IF out = "KeyError" THEN b_built ELSE b_built \cup {t}
         /\ IF out = "ok"
            THEN \E m \in Times :
                   /\ m >= Latest(exec_mtime, src_mtime)
                   /\ exec_mtime' = Some(m)
            ELSE UNCHANGED exec_mtime
         /\ SetBuildPc(t, IF out \in {"CalledProcessError", "KeyError"}
                          THEN "returned" ELSE "register")
    /\ UNCHANGED <<src_mtime, b_needs, b_checked, b_seen, b_registered, besideBuild>>

\* code_execution_manager.py 104-114: the program is registered when the
\* executable exists.
RegisterProject(t) ==
    /\ b_pc[t] = "register"
    /\ b_registered' = IF exec_mtime # None THEN b_registered \cup {t} ELSE b_registered
    /\ SetBuildPc(t, "done")
    /\ UNCHANGED <<exec_mtime, src_mtime, b_needs, b_checked, b_seen, b_built, builds,
                   besideBuild>>

Check == \E t \in Threads : CheckProject(t)

Build == \E t \in Threads : BuildProject(t)

RegisterProgram == \E t \in Threads : RegisterProject(t)

BuildNext == Check \/ Build \/ RegisterProgram

\* A project directory as discovery may find it: any of the files missing or
\* present, with any times.
BuildInit ==
    /\ InterpreterOff
    /\ TasksInit
    /\ RegistryInit
    /\ LazyInit
    /\ IntentsInit
    /\ WorkflowOff
    /\ ApproveOff
    /\ FolderInit
    /\ ReplanOff
    /\ exec_mtime \in Files
    /\ src_mtime \in [SourceFiles -> Files]
    /\ b_pc = [t \in Threads |-> "idle"]
    /\ b_needs = [t \in Threads |-> None]
    /\ b_checked = [t \in Threads |-> None]
    /\ b_seen = [t \in Threads |-> 0]
    /\ b_built = {}
    /\ b_registered = {}
    /\ builds = 0

SpecBuild == BuildInit /\ [][BuildNext]_vars

\* C24 as stated: a pass skips the build if and only if the executable exists
\* and is newer than every source file (every source is present and older).
C24_SkipIffNewerThanSources ==
    /\ \A t \in Threads :
         b_needs[t] # None
         => LET exec == b_checked[t][1].exec
                srcs == b_checked[t][1].srcs
            IN  ~b_needs[t][1]
                <=> /\ exec # None
                    /\ \A f \in SourceFiles : srcs[f] # None /\ srcs[f][1] < exec[1]
    /\ \A t \in b_registered : b_needs[t][1] => t \in b_built

\* C24: a pass skips the build if and only if the executable exists, every
\* source file exists and no source file is newer than the executable (a
\* source of the executable's own modification time does not cause a build);
\* in every other case the pass runs the build before it registers.
C24_SkipIffNoSourceNewer ==
    /\ \A t \in Threads :
         b_needs[t] # None
         => LET exec == b_checked[t][1].exec
                srcs == b_checked[t][1].srcs
            IN  ~b_needs[t][1]
                <=> /\ exec # None
                    /\ \A f \in SourceFiles : srcs[f] # None /\ srcs[f][1] <= exec[1]
    /\ \A t \in b_registered : b_needs[t][1] => t \in b_built

\* C24 witness: a pass found the executable and every source file, one of
\* them of the executable's own modification time, and registered the program
\* without running the build.
C24_Witness ==
    \E t \in Threads :
       /\ t \in b_registered
       /\ t \notin b_built
       /\ b_needs[t] = Some(FALSE)
       /\ \E f \in SourceFiles : b_checked[t][1].srcs[f] = b_checked[t][1].exec

\* C25: the build command of a stale program is run at most once by passes
\* that overlap: no pass runs it when another has run it since the pass
\* computed needs_compilation.
C25_NoDoubleBuild ==
    [][ \A t \in Threads :
          (b_pc[t] = "build" /\ builds' = builds + 1 /\ t \in b_built')
          => builds = b_seen[t]
      ]_vars

\* ------------------------------------------- the intent table: tie-breaking

\* The place of an intent name in the lexicographic order of the names.
NameRank(name) == IF name = "i1" THEN 1 ELSE 2

\* C26: among the intents that share the maximum similarity,
\* match_intent_locally returns the one whose name is lexicographically
\* lowest, whatever the order of registration.
C26_TieLowestName ==
    (match_in # None /\ match_result # None)
    => \A n \in Scored(intents) :
          match_in[1].sim[n] = match_in[1].sim[match_result[1]]
          => NameRank(match_result[1]) <= NameRank(n)

\* ------------------------------------------- the workflow: repeated runs

besideReplan == <<interpreterVars, tasksVars, registryVars, lazyVars, intentVars,
                  approveVars, folderVars, buildVars>>

\* Configuration files with at most one dependency, every module costing 1.
ReplanGraphs ==
    {ReadModuleConfig(lines, deps) :
        lines \in Orders(Modules),
        deps \in {d \in DependencySets : Cardinality(d) <= 1}}

ReplanCosts == {[m \in Modules |-> 1]}

\* workflow_manager.py 56-61 on a manager that has read a file before:
\* self.costs[module_name] is overwritten, self.graph[dep] is appended to;
\* neither is cleared by run() (164-172).
ReadAgain(old, new) ==
    [dep \in DOMAIN old \cup DOMAIN new |-> Adjacent(old, dep) \o Adjacent(new, dep)]

\* workflow_manager.py 179-180: the route planned for one order of all_modules.
PlanRoute(start, end, all_modules, g, c) ==
    GetOptimalRoute(start, end, FindShortestPath(start, all_modules, g, c).predecessors)

\* workflow_manager.py 164-186: run(config_path, start_module, end_module) on
\* a manager that may have run before, up to the execution loop.
ReplanRun ==
    /\ runs < MaxRuns
    /\ wf_state \in {"new", "noroute", "complete", "raised"}
    /\ runs' = runs + 1
    /\ \E new \in ReplanGraphs, c \in ReplanCosts, start \in Modules, end \in Modules :
         LET g == ReadAgain(graph, new)
         IN  \E all_modules \in Orders(AllModules(c, g)) :
                LET found == FindShortestPath(start, all_modules, g, c)
                    route == GetOptimalRoute(start, end, found.predecessors)
                IN  /\ graph' = g
                    /\ costs' = c
                    /\ start_module' = start
                    /\ end_module' = end
                    /\ min_costs' = found.min_costs
                    /\ predecessors' = found.predecessors
                    /\ optimal_route' = route
                    /\ fresh_route' = PlanRoute(start, end, all_modules, new, c)
                    /\ wf_state' = IF route = <<>> THEN "noroute" ELSE "running"
    /\ ran' = <<>>
    /\ failed_modules' = {}
    /\ UNCHANGED <<stop_on_error, sorted_order, alt_sorted, alt_route, besideReplan>>

ReplanNext == ReplanRun \/ ExecuteModule

SpecReplan == WorkflowInit /\ [][ReplanNext]_vars

\* C28: every run() plans the route a new WorkflowManager would plan for the
\* same file, start and end.
C28_PlanAsFreshManager ==
    runs > 0 => optimal_route = fresh_route

\* ------------------------------------------ the workflow: two processes

\* Module costs that let routes of different lengths cost the same.
TieCosts == [Modules -> {0, 1}]

\* workflow_manager.py 164-186: run() up to the execution loop, and beside it
\* the same call of run() in another process, where list(set(...)) (173)
\* may give the modules in another order.
RunTwice ==
    /\ wf_state = "new"
    /\ \E g \in Graphs, c \in TieCosts, start \in Modules, end \in Modules :
         \E all_modules \in Orders(AllModules(c, g)), other \in Orders(AllModules(c, g)) :
            LET found == FindShortestPath(start, all_modules, g, c)
                route == GetOptimalRoute(start, end, found.predecessors)
            IN  /\ graph' = g
                /\ costs' = c
                /\ start_module' = start
                /\ end_module' = end
                /\ min_costs' = found.min_costs
                /\ predecessors' = found.predecessors
                /\ optimal_route' = route
                /\ sorted_order' = TopologicalSort(all_modules, g)
                /\ alt_sorted' = TopologicalSort(other, g)
                /\ alt_route' = PlanRoute(start, end, other, g, c)
                /\ wf_state' = IF route = <<>> THEN "noroute" ELSE "running"
    /\ UNCHANGED <<stop_on_error, ran, failed_modules, runs, fresh_route, besideReplan>>

TwiceNext == RunTwice \/ ExecuteModule

SpecTwice == WorkflowInit /\ [][TwiceNext]_vars

\* C27: planning is deterministic: for the same file, start and end the
\* topological order and the route are the same in every run.
C27_PlanIsDeterministic ==
    Planned => (sorted_order = alt_sorted /\ optimal_route = alt_route)

\* --------------------------------------------- the interpreter: the ceiling

\* C29: one call of run() or run_approved_code() sends at most max_iterations
\* requests to the orchestrator: while its stream is active the requests sent
\* and the passes left add up to max_iterations, and the count is that of the
\* current call only, whatever earlier calls have sent.
C29_RequestsWithinCeiling ==
    /\ requests <= max_iterations
    /\ stream_state = "active" => requests + iter_left = max_iterations

\* An approved stream, started after an earlier stream had sent requests of
\* its own, has sent max_iterations requests itself.
C29_Witness ==
    /\ stream = "approved"
    /\ calls = 2
    /\ max_iterations >= 2
    /\ requests = max_iterations
    /\ hist_mark > 0

=============================================================================
